---- MODULE Spec2Model ----
(***************************************************************************)
(* Access-token lifecycle of the router: is_new_access_token_required,     *)
(* add_access_token, refresh_connector_auth and                            *)
(* update_router_data_with_access_token_result                             *)
(* (crates/router/src/core/payments/access_token.rs).                      *)
(*                                                                         *)
(* Option<T> is a sequence: <<>> is None, <<x>> is Some(x).                *)
(* Result<T, E> is a record [tag |-> "Ok" | "Err", val |-> ...].           *)
(* Timestamps and durations are mathematical integers: the i64 sum         *)
(* created_at + expires is modelled without wrap-around.                   *)
(***************************************************************************)
EXTENDS Integers, Sequences, FiniteSets, TLC

VARIABLES
    now,               \* time::OffsetDateTime::now_utc().unix_timestamp()
    cache,             \* state.store: key -> Option<[access_token, set_at]>
    metrics,           \* metrics::ACCESS_TOKEN_CREATION
    minted,            \* number of tokens the connector has issued so far
    pc,                \* position of each call chain
    call,              \* arguments of each call: merchant, connector, action
    router_data,       \* the caller's RouterData (access_token, response)
    old_access_token,  \* local of add_access_token
    required,          \* value of is_new_access_token_required, with its clock
    new_token,         \* the token returned by refresh_connector_auth
    result,            \* RouterResult<AddAccessTokenResult> of add_access_token
    should_continue,   \* return value of update_router_data_with_access_token_result
    trace,             \* per call: the I/O it performed, in order
    payout,            \* one Wise payout-create operation (connector/wise.rs)
    norm               \* one application of the Wise error normalizer

vars == <<now, cache, metrics, minted, pc, call, router_data, old_access_token,
          required, new_token, result, should_continue, trace, payout, norm>>

\* the state of the access-token calls, and the state of the Wise adapter
token_vars == <<now, cache, metrics, minted, pc, call, router_data,
                old_access_token, required, new_token, result, should_continue,
                trace>>
wise_vars == <<payout, norm>>

-----------------------------------------------------------------------------
(* Bounds of the model *)

MaxTime == 3
MaxExpires == 1

-----------------------------------------------------------------------------
(* Data *)

None == <<>>
Some(x) == <<x>>
IsSome(o) == Len(o) = 1
Unwrap(o) == o[1]

Ok_(v) == [tag |-> "Ok", val |-> v]
Err_(e) == [tag |-> "Err", val |-> e]

Procs == {1, 2}
Merchants == {"merchant_1", "merchant_2"}
Connectors == {"airwallex", "wise"}
PaymentMethods == {"card"}
CallConnectorAction == {"Trigger", "Skip"}

\* types::ErrorResponse::default()
DefaultErrorResponse ==
    [status_code |-> 500, code |-> "default_code",
     message |-> "default_message", reason |-> None]

\* a normalized error reported by the connector on the AccessTokenAuth flow
ConnectorErrorResponse ==
    [status_code |-> 401, code |-> "invalid_client",
     message |-> "Access denied", reason |-> None]

ErrorResponses == {DefaultErrorResponse, ConnectorErrorResponse}

\* types::AccessToken
AccessToken(t, e, c) ==
    [token |-> t, expires |-> e, refresh_token_created_at |-> c]

\* the (merchant id, connector id) key of the token cache
Key(m, c) == [merchant_id |-> m, connector_id |-> c]
Keys == {Key(m, c) : m \in Merchants, c \in Connectors}
KeyOf(p) == Key(call[p].merchant_id, call[p].connector)

\* Connector::supports_access_token(payment_method)
supports_access_token(connector_name, payment_method) ==
    connector_name = "airwallex"

-----------------------------------------------------------------------------
(* The token cache store: set with TTL = expires, get of a live entry *)

store_get_access_token(k) ==
    IF IsSome(cache[k])
         /\ now < Unwrap(cache[k]).set_at + Unwrap(cache[k]).access_token.expires
      THEN Some(Unwrap(cache[k]).access_token)
      ELSE None

store_set_access_token(k, access_token) ==
    [cache EXCEPT ![k] = Some([access_token |-> access_token, set_at |-> now])]

-----------------------------------------------------------------------------
(* Pure functions of access_token.rs *)

\* variant: the boundary instant counts as expired
is_new_access_token_required_at_boundary(old, clock) ==
    IF IsSome(old)
      THEN IF IsSome(Unwrap(old).refresh_token_created_at)
             THEN clock >= (Unwrap(Unwrap(old).refresh_token_created_at)
                              + Unwrap(old).expires)
             ELSE FALSE
      ELSE TRUE

\* variant: an absent token is taken as valid
is_new_access_token_required_absent_valid(old, clock) ==
    IF IsSome(old)
      THEN IF IsSome(Unwrap(old).refresh_token_created_at)
             THEN clock > (Unwrap(Unwrap(old).refresh_token_created_at)
                             + Unwrap(old).expires)
             ELSE FALSE
      ELSE FALSE

\* variant: a token without created_at is taken as created at time 0
is_new_access_token_required_epoch(old, clock) ==
    IF IsSome(old)
      THEN IF IsSome(Unwrap(old).refresh_token_created_at)
             THEN clock > (Unwrap(Unwrap(old).refresh_token_created_at)
                             + Unwrap(old).expires)
             ELSE clock > Unwrap(old).expires
      ELSE TRUE

is_new_access_token_required(old, clock) ==
    IF IsSome(old)
      THEN IF IsSome(Unwrap(old).refresh_token_created_at)
             THEN clock > (Unwrap(Unwrap(old).refresh_token_created_at)
                             + Unwrap(old).expires)
             ELSE FALSE
      ELSE TRUE

\* variant: the support flag is not consulted
update_router_data_ignoring_support(add_access_token_result, rd, call_connector_action) ==
    LET should_update_router_data == call_connector_action = "Trigger"
        r == add_access_token_result.access_token_result
    IN  IF should_update_router_data
          THEN IF r.tag = "Ok"
                 THEN [router_data |-> [rd EXCEPT !.access_token = r.val],
                       ret |-> TRUE]
                 ELSE [router_data |-> [rd EXCEPT !.response = Err_(r.val)],
                       ret |-> FALSE]
          ELSE [router_data |-> rd, ret |-> TRUE]

\* variant: the Call-Action is not consulted
update_router_data_ignoring_action(add_access_token_result, rd, call_connector_action) ==
    LET should_update_router_data ==
            add_access_token_result.connector_supports_access_token
        r == add_access_token_result.access_token_result
    IN  IF should_update_router_data
          THEN IF r.tag = "Ok"
                 THEN [router_data |-> [rd EXCEPT !.access_token = r.val],
                       ret |-> TRUE]
                 ELSE [router_data |-> [rd EXCEPT !.response = Err_(r.val)],
                       ret |-> FALSE]
          ELSE [router_data |-> rd, ret |-> TRUE]

\* variant: a failed token outcome is recorded but the caller is told to go on
update_router_data_continue_on_error(add_access_token_result, rd, call_connector_action) ==
    LET should_update_router_data ==
            /\ add_access_token_result.connector_supports_access_token
            /\ call_connector_action = "Trigger"
        r == add_access_token_result.access_token_result
    IN  IF should_update_router_data
          THEN IF r.tag = "Ok"
                 THEN [router_data |-> [rd EXCEPT !.access_token = r.val],
                       ret |-> TRUE]
                 ELSE [router_data |-> [rd EXCEPT !.response = Err_(r.val)],
                       ret |-> TRUE]
          ELSE [router_data |-> rd, ret |-> TRUE]

\* variant: a successful token outcome is not stored in the context
update_router_data_token_not_stored(add_access_token_result, rd, call_connector_action) ==
    LET should_update_router_data ==
            /\ add_access_token_result.connector_supports_access_token
            /\ call_connector_action = "Trigger"
        r == add_access_token_result.access_token_result
    IN  IF should_update_router_data
          THEN IF r.tag = "Ok"
                 THEN [router_data |-> rd, ret |-> TRUE]
                 ELSE [router_data |-> [rd EXCEPT !.response = Err_(r.val)],
                       ret |-> FALSE]
          ELSE [router_data |-> rd, ret |-> TRUE]

\* returns the updated router_data and the boolean the function returns
update_router_data_with_access_token_result(add_access_token_result, rd, call_connector_action) ==
    LET should_update_router_data ==
            /\ add_access_token_result.connector_supports_access_token
            /\ call_connector_action = "Trigger"
        r == add_access_token_result.access_token_result
    IN  IF should_update_router_data
          THEN IF r.tag = "Ok"
                 THEN [router_data |-> [rd EXCEPT !.access_token = r.val],
                       ret |-> TRUE]
                 ELSE [router_data |-> [rd EXCEPT !.response = Err_(r.val)],
                       ret |-> FALSE]
          ELSE [router_data |-> rd, ret |-> TRUE]

-----------------------------------------------------------------------------
(* Values of the call chains *)

\* the RouterData the caller hands in: empty token slot, default outcome
NewRouterData(pm) ==
    [access_token |-> None, response |-> Err_(DefaultErrorResponse),
     payment_method |-> pm]

NoCall == [merchant_id |-> "merchant_1", connector |-> "wise",
           call_connector_action |-> "Skip"]
NoResult == [tag |-> "Pending"]

AddAccessTokenResult(r, supported) ==
    [access_token_result |-> r, connector_supports_access_token |-> supported]

\* ok tells whether the collaborator reported success
Event(op, k, arg) == [op |-> op, key |-> k, arg |-> arg, ok |-> TRUE]
FailedEvent(op, k, arg) == [op |-> op, key |-> k, arg |-> arg, ok |-> FALSE]
Log(p, op, arg) == [trace EXCEPT ![p] = Append(@, Event(op, KeyOf(p), arg))]
LogFailed(p, op, arg) == [trace EXCEPT ![p] = Append(@, FailedEvent(op, KeyOf(p), arg))]

\* what services::execute_connector_processing_step can hand back for the
\* AccessTokenAuth flow at time clock, n tokens having been issued before:
\* a fatal error, a completed cycle whose outcome is an error (the default
\* one when no request was built), or a completed cycle with a new token
AccessTokenAuthOutcomes(clock, n) ==
    {Err_("ConnectorError")}
      \cup {Ok_(Err_(e)) : e \in ErrorResponses}
      \cup {Ok_(Ok_(AccessToken(n + 1, e, c))) :
              e \in 0..MaxExpires,
              c \in {None, Some(clock)}}

\* no payout operation and no normalization in progress
NoPayout == [pc |-> "none"]
NoNorm == [pc |-> "none"]

-----------------------------------------------------------------------------
(* Initial state: nothing cached, no call running *)

Init ==
    /\ now = 0
    /\ cache = [k \in Keys |-> None]
    /\ metrics = 0
    /\ minted = 0
    /\ pc = [p \in Procs |-> "idle"]
    /\ call = [p \in Procs |-> NoCall]
    /\ router_data = [p \in Procs |-> NewRouterData("card")]
    /\ old_access_token = [p \in Procs |-> None]
    /\ required = [p \in Procs |-> None]
    /\ new_token = [p \in Procs |-> None]
    /\ result = [p \in Procs |-> NoResult]
    /\ should_continue = [p \in Procs |-> None]
    /\ trace = [p \in Procs |-> <<>>]
    /\ payout = NoPayout
    /\ norm = NoNorm

-----------------------------------------------------------------------------
(* Each caller makes one call: add_access_token(state, connector,          *)
(* merchant_account, router_data), followed by the merge                   *)

Start(p) ==
    /\ pc[p] = "idle"
    /\ \E m \in Merchants, c \in Connectors, pm \in PaymentMethods,
          a \in CallConnectorAction :
         /\ call' = [call EXCEPT ![p] =
                       [merchant_id |-> m, connector |-> c,
                        call_connector_action |-> a]]
         /\ router_data' = [router_data EXCEPT ![p] = NewRouterData(pm)]
    /\ pc' = [pc EXCEPT ![p] = "check_support"]
    /\ UNCHANGED <<now, cache, metrics, minted, old_access_token, required,
                   new_token, result, should_continue, trace>>
    /\ UNCHANGED wise_vars

\* variant: the support check is skipped, every connector reads the cache
CheckSupport_unchecked(p) ==
    /\ pc[p] = "check_support"
    /\ pc' = [pc EXCEPT ![p] = "read_cache"]
    /\ UNCHANGED <<now, cache, metrics, minted, call, router_data,
                   old_access_token, required, new_token, result,
                   should_continue, trace>>
    /\ UNCHANGED wise_vars

\* add_access_token, lines 70-73 and 132-137
CheckSupport(p) ==
    /\ pc[p] = "check_support"
    /\ IF supports_access_token(call[p].connector, router_data[p].payment_method)
         THEN /\ pc' = [pc EXCEPT ![p] = "read_cache"]
              /\ UNCHANGED result
         ELSE /\ result' = [result EXCEPT ![p] =
                   Ok_(AddAccessTokenResult(Err_(DefaultErrorResponse), FALSE))]
              /\ pc' = [pc EXCEPT ![p] = "returned"]
    /\ UNCHANGED <<now, cache, metrics, minted, call, router_data,
                   old_access_token, required, new_token, should_continue,
                   trace>>
    /\ UNCHANGED wise_vars

\* variant: a failed cache read is taken as "nothing cached"
ReadCache_failure_as_absent(p) ==
    /\ pc[p] = "read_cache"
    /\ \/ /\ trace' = Log(p, "get_access_token", None)
          /\ old_access_token' =
                [old_access_token EXCEPT ![p] = store_get_access_token(KeyOf(p))]
       \/ /\ trace' = LogFailed(p, "get_access_token", None)
          /\ old_access_token' = [old_access_token EXCEPT ![p] = None]
    /\ pc' = [pc EXCEPT ![p] = "decide"]
    /\ UNCHANGED <<now, cache, metrics, minted, call, router_data, required,
                   new_token, result, should_continue>>
    /\ UNCHANGED wise_vars

\* add_access_token, lines 74-80: store.get_access_token(...).await ... ?
ReadCache(p) ==
    /\ pc[p] = "read_cache"
    /\ \/ /\ trace' = Log(p, "get_access_token", None)
          /\ old_access_token' =
                [old_access_token EXCEPT ![p] = store_get_access_token(KeyOf(p))]
          /\ pc' = [pc EXCEPT ![p] = "decide"]
          /\ UNCHANGED result
       \/ /\ trace' = LogFailed(p, "get_access_token", None)   \* DB error
          /\ result' = [result EXCEPT ![p] = Err_("InternalServerError")]
          /\ pc' = [pc EXCEPT ![p] = "failed"]
          /\ UNCHANGED old_access_token
    /\ UNCHANGED <<now, cache, metrics, minted, call, router_data, required,
                   new_token, should_continue>>
    /\ UNCHANGED wise_vars

\* variant: a token that is kept is written back to the cache
DecideRefresh_rewrites_cache(p) ==
    /\ pc[p] = "decide"
    /\ LET req == is_new_access_token_required(old_access_token[p], now)
       IN  /\ required' = [required EXCEPT ![p] = Some(req)]
           /\ IF req
                THEN /\ pc' = [pc EXCEPT ![p] = "refresh"]
                     /\ UNCHANGED <<result, cache>>
                ELSE /\ result' = [result EXCEPT ![p] =
                          Ok_(AddAccessTokenResult(Ok_(old_access_token[p]), TRUE))]
                     /\ cache' = store_set_access_token(KeyOf(p),
                                                        Unwrap(old_access_token[p]))
                     /\ pc' = [pc EXCEPT ![p] = "returned"]
    /\ UNCHANGED <<now, metrics, minted, call, router_data,
                   old_access_token, new_token, should_continue, trace>>
    /\ UNCHANGED wise_vars

\* variant: the decision is computed but the refresh is always taken
DecideRefresh_always(p) ==
    /\ pc[p] = "decide"
    /\ required' = [required EXCEPT ![p] =
           Some(is_new_access_token_required(old_access_token[p], now))]
    /\ pc' = [pc EXCEPT ![p] = "refresh"]
    /\ UNCHANGED <<now, cache, metrics, minted, call, router_data,
                   old_access_token, new_token, result, should_continue, trace>>
    /\ UNCHANGED wise_vars

\* add_access_token, lines 82-83 and 125-131
DecideRefresh(p) ==
    /\ pc[p] = "decide"
    /\ LET req == is_new_access_token_required(old_access_token[p], now)
       IN  /\ required' = [required EXCEPT ![p] = Some(req)]
           /\ IF req
                THEN /\ pc' = [pc EXCEPT ![p] = "refresh"]
                     /\ UNCHANGED result
                ELSE /\ result' = [result EXCEPT ![p] =
                          Ok_(AddAccessTokenResult(Ok_(old_access_token[p]), TRUE))]
                     /\ pc' = [pc EXCEPT ![p] = "returned"]
    /\ UNCHANGED <<now, cache, metrics, minted, call, router_data,
                   old_access_token, new_token, should_continue, trace>>
    /\ UNCHANGED wise_vars

\* variant: the metric is incremented before the outcome of the call is known
Refresh_counts_failure(p) ==
    /\ pc[p] = "refresh"
    /\ \E out \in AccessTokenAuthOutcomes(now, minted) :
         /\ metrics' = metrics + 1
         /\ IF out.tag = "Err"
              THEN /\ trace' = [trace EXCEPT ![p] =
                          @ \o <<Event("ACCESS_TOKEN_CREATION", KeyOf(p), None),
                                 FailedEvent("execute_connector_processing_step",
                                             KeyOf(p), "Trigger")>>]
                   /\ result' = [result EXCEPT ![p] = Err_("InternalServerError")]
                   /\ pc' = [pc EXCEPT ![p] = "failed"]
                   /\ UNCHANGED <<minted, new_token>>
              ELSE /\ trace' = [trace EXCEPT ![p] =
                          @ \o <<Event("execute_connector_processing_step",
                                       KeyOf(p), "Trigger"),
                                 Event("ACCESS_TOKEN_CREATION", KeyOf(p), None)>>]
                   /\ IF out.val.tag = "Ok"
                        THEN /\ new_token' = [new_token EXCEPT ![p] = Some(out.val.val)]
                             /\ minted' = minted + 1
                             /\ pc' = [pc EXCEPT ![p] = "persist"]
                             /\ UNCHANGED result
                        ELSE /\ result' = [result EXCEPT ![p] =
                                  Ok_(AddAccessTokenResult(Err_(out.val.val), TRUE))]
                             /\ pc' = [pc EXCEPT ![p] = "returned"]
                             /\ UNCHANGED <<minted, new_token>>
    /\ UNCHANGED <<now, cache, call, router_data, old_access_token, required,
                   should_continue>>
    /\ UNCHANGED wise_vars

\* refresh_connector_auth, lines 159-194, and its use at lines 84-107
Refresh(p) ==
    /\ pc[p] = "refresh"
    /\ \E out \in AccessTokenAuthOutcomes(now, minted) :
         IF out.tag = "Err"
           THEN \* lines 182-184 and 106: the error leaves add_access_token
                /\ trace' = LogFailed(p, "execute_connector_processing_step", "Trigger")
                /\ result' = [result EXCEPT ![p] = Err_("InternalServerError")]
                /\ pc' = [pc EXCEPT ![p] = "failed"]
                /\ UNCHANGED <<metrics, minted, new_token>>
           ELSE /\ trace' = [trace EXCEPT ![p] =
                       @ \o <<Event("execute_connector_processing_step",
                                    KeyOf(p), "Trigger"),
                              Event("ACCESS_TOKEN_CREATION", KeyOf(p), None)>>]
                /\ metrics' = metrics + 1
                /\ IF out.val.tag = "Ok"
                     THEN /\ new_token' = [new_token EXCEPT ![p] = Some(out.val.val)]
                          /\ minted' = minted + 1
                          /\ pc' = [pc EXCEPT ![p] = "persist"]
                          /\ UNCHANGED result
                     ELSE /\ result' = [result EXCEPT ![p] =
                               Ok_(AddAccessTokenResult(Err_(out.val.val), TRUE))]
                          /\ pc' = [pc EXCEPT ![p] = "returned"]
                          /\ UNCHANGED <<minted, new_token>>
    /\ UNCHANGED <<now, cache, call, router_data, old_access_token, required,
                   should_continue>>
    /\ UNCHANGED wise_vars

\* variant: a failed cache write fails the call
Persist_propagates_error(p) ==
    /\ pc[p] = "persist"
    /\ \/ /\ trace' = Log(p, "set_access_token", new_token[p])
          /\ cache' = store_set_access_token(KeyOf(p), Unwrap(new_token[p]))
          /\ result' = [result EXCEPT ![p] =
                          Ok_(AddAccessTokenResult(Ok_(new_token[p]), TRUE))]
          /\ pc' = [pc EXCEPT ![p] = "returned"]
       \/ /\ trace' = LogFailed(p, "set_access_token", new_token[p])
          /\ UNCHANGED cache
          /\ result' = [result EXCEPT ![p] = Err_("InternalServerError")]
          /\ pc' = [pc EXCEPT ![p] = "failed"]
    /\ UNCHANGED <<now, metrics, minted, call, router_data, old_access_token,
                   required, new_token, should_continue>>
    /\ UNCHANGED wise_vars

\* variant: when the entry changed since it was read, the entry is dropped
Persist_invalidate_on_conflict(p) ==
    /\ pc[p] = "persist"
    /\ \/ /\ trace' = Log(p, "set_access_token", new_token[p])
          /\ cache' = IF store_get_access_token(KeyOf(p)) = old_access_token[p]
                        THEN store_set_access_token(KeyOf(p), Unwrap(new_token[p]))
                        ELSE [cache EXCEPT ![KeyOf(p)] = None]
       \/ /\ trace' = LogFailed(p, "set_access_token", new_token[p])
          /\ UNCHANGED cache
    /\ result' = [result EXCEPT ![p] =
                    Ok_(AddAccessTokenResult(Ok_(new_token[p]), TRUE))]
    /\ pc' = [pc EXCEPT ![p] = "returned"]
    /\ UNCHANGED <<now, metrics, minted, call, router_data, old_access_token,
                   required, new_token, should_continue>>
    /\ UNCHANGED wise_vars

\* variant: when the entry changed since it was read, the entry is kept
Persist_keep_existing(p) ==
    /\ pc[p] = "persist"
    /\ \/ /\ trace' = Log(p, "set_access_token", new_token[p])
          /\ cache' = IF store_get_access_token(KeyOf(p)) = old_access_token[p]
                        THEN store_set_access_token(KeyOf(p), Unwrap(new_token[p]))
                        ELSE cache
       \/ /\ trace' = LogFailed(p, "set_access_token", new_token[p])
          /\ UNCHANGED cache
    /\ result' = [result EXCEPT ![p] =
                    Ok_(AddAccessTokenResult(Ok_(new_token[p]), TRUE))]
    /\ pc' = [pc EXCEPT ![p] = "returned"]
    /\ UNCHANGED <<now, metrics, minted, call, router_data, old_access_token,
                   required, new_token, should_continue>>
    /\ UNCHANGED wise_vars

\* variant: the new token is written to the cache but the old one is returned
Persist_returns_old(p) ==
    /\ pc[p] = "persist"
    /\ \/ /\ trace' = Log(p, "set_access_token", new_token[p])
          /\ cache' = store_set_access_token(KeyOf(p), Unwrap(new_token[p]))
       \/ /\ trace' = LogFailed(p, "set_access_token", new_token[p])
          /\ UNCHANGED cache
    /\ result' = [result EXCEPT ![p] =
                    Ok_(AddAccessTokenResult(Ok_(old_access_token[p]), TRUE))]
    /\ pc' = [pc EXCEPT ![p] = "returned"]
    /\ UNCHANGED <<now, metrics, minted, call, router_data, old_access_token,
                   required, new_token, should_continue>>
    /\ UNCHANGED wise_vars

\* add_access_token, lines 107-131: the cache write, whose error is dropped
Persist(p) ==
    /\ pc[p] = "persist"
    /\ \/ /\ trace' = Log(p, "set_access_token", new_token[p])
          /\ cache' = store_set_access_token(KeyOf(p), Unwrap(new_token[p]))
       \/ /\ trace' = LogFailed(p, "set_access_token", new_token[p])
          /\ UNCHANGED cache   \* the store reports an error: `let _ =` drops it
    /\ result' = [result EXCEPT ![p] =
                    Ok_(AddAccessTokenResult(Ok_(new_token[p]), TRUE))]
    /\ pc' = [pc EXCEPT ![p] = "returned"]
    /\ UNCHANGED <<now, metrics, minted, call, router_data, old_access_token,
                   required, new_token, should_continue>>
    /\ UNCHANGED wise_vars

\* the caller merges the result into its router_data
Merge(p) ==
    /\ pc[p] = "returned"
    /\ LET m == update_router_data_with_access_token_result(
                    result[p].val, router_data[p], call[p].call_connector_action)
       IN  /\ router_data' = [router_data EXCEPT ![p] = m.router_data]
           /\ should_continue' = [should_continue EXCEPT ![p] = Some(m.ret)]
    /\ pc' = [pc EXCEPT ![p] = "merged"]
    /\ UNCHANGED <<now, cache, metrics, minted, call, old_access_token,
                   required, new_token, result, trace>>
    /\ UNCHANGED wise_vars

\* the clock advances
Tick ==
    /\ now < MaxTime
    /\ now' = now + 1
    /\ UNCHANGED <<cache, metrics, minted, pc, call, router_data,
                   old_access_token, required, new_token, result,
                   should_continue, trace>>
    /\ UNCHANGED wise_vars

Next ==
    \/ \E p \in Procs :
         \/ Start(p)
         \/ CheckSupport(p)
         \/ ReadCache(p)
         \/ DecideRefresh(p)
         \/ Refresh(p)
         \/ Persist(p)
         \/ Merge(p)
    \/ Tick

Spec == Init /\ [][Next]_vars

-----------------------------------------------------------------------------
(* is_new_access_token_required on its own: one caller stands at the       *)
(* decision with any cached token (or none) in hand, at any clock value    *)

TokenInputs ==
    {AccessToken(1, e, c) :
       e \in 0..MaxExpires, c \in {None} \cup {Some(t) : t \in 0..MaxTime}}

InitRequired ==
    /\ now \in 0..(MaxTime + MaxExpires + 1)
    /\ cache = [k \in Keys |-> None]
    /\ metrics = 0
    /\ minted = 1
    /\ pc = [p \in Procs |-> IF p = 1 THEN "decide" ELSE "idle"]
    /\ call = [p \in Procs |->
                 IF p = 1 THEN [merchant_id |-> "merchant_1",
                                connector |-> "airwallex",
                                call_connector_action |-> "Trigger"]
                          ELSE NoCall]
    /\ router_data = [p \in Procs |-> NewRouterData("card")]
    /\ \E o \in {None} \cup {Some(t) : t \in TokenInputs} :
         old_access_token = [p \in Procs |-> IF p = 1 THEN o ELSE None]
    /\ required = [p \in Procs |-> None]
    /\ new_token = [p \in Procs |-> None]
    /\ result = [p \in Procs |-> NoResult]
    /\ should_continue = [p \in Procs |-> None]
    /\ trace = [p \in Procs |->
                  IF p = 1
                    THEN <<Event("get_access_token",
                                 Key("merchant_1", "airwallex"), None)>>
                    ELSE <<>>]
    /\ payout = NoPayout
    /\ norm = NoNorm

NextRequired == \E p \in Procs : DecideRefresh(p)

SpecRequired == InitRequired /\ [][NextRequired]_vars

-----------------------------------------------------------------------------
(* update_router_data_with_access_token_result on its own: one caller      *)
(* holds any AddAccessTokenResult, any context and any Call-Action         *)

TokenA == AccessToken(1, 1, Some(0))
TokenB == AccessToken(2, 1, None)

AccessTokenResults ==
    {Ok_(None), Ok_(Some(TokenA)), Ok_(Some(TokenB))}
      \cup {Err_(e) : e \in ErrorResponses}

RouterDataInputs ==
    {[access_token |-> t, response |-> r, payment_method |-> "card"] :
       t \in {None, Some(TokenA)},
       r \in {Err_(DefaultErrorResponse), Err_(ConnectorErrorResponse)}}

InitMerge ==
    /\ now = 0
    /\ cache = [k \in Keys |-> None]
    /\ metrics = 0
    /\ minted = 2
    /\ pc = [p \in Procs |-> IF p = 1 THEN "returned" ELSE "idle"]
    /\ \E c \in Connectors, a \in CallConnectorAction :
         call = [p \in Procs |->
                   IF p = 1 THEN [merchant_id |-> "merchant_1", connector |-> c,
                                  call_connector_action |-> a]
                            ELSE NoCall]
    /\ \E rd \in RouterDataInputs :
         router_data = [p \in Procs |-> IF p = 1 THEN rd ELSE NewRouterData("card")]
    /\ old_access_token = [p \in Procs |-> None]
    /\ required = [p \in Procs |-> None]
    /\ new_token = [p \in Procs |-> None]
    /\ \E r \in AccessTokenResults, s \in BOOLEAN :
         result = [p \in Procs |->
                     IF p = 1 THEN Ok_(AddAccessTokenResult(r, s)) ELSE NoResult]
    /\ should_continue = [p \in Procs |-> None]
    /\ trace = [p \in Procs |-> <<>>]
    /\ payout = NoPayout
    /\ norm = NoNorm

NextMerge == \E p \in Procs : Merge(p)

SpecMerge == InitMerge /\ [][NextMerge]_vars

-----------------------------------------------------------------------------
(* Two concurrent add_access_token calls on one cache key: both callers    *)
(* stand before the cache read; the cache holds nothing or a token left by *)
(* an earlier call                                                         *)

RaceKey == Key("merchant_1", "airwallex")
PriorTokens ==
    {AccessToken(0, e, c) : e \in 0..MaxExpires, c \in {None, Some(0)}}

InitRace ==
    /\ now \in 0..MaxTime
    /\ \E o \in {None} \cup {Some([access_token |-> t, set_at |-> now]) :
                              t \in PriorTokens} :
         cache = [k \in Keys |-> IF k = RaceKey THEN o ELSE None]
    /\ metrics = 0
    /\ minted = 0
    /\ pc = [p \in Procs |-> "read_cache"]
    /\ call = [p \in Procs |-> [merchant_id |-> "merchant_1",
                                connector |-> "airwallex",
                                call_connector_action |-> "Trigger"]]
    /\ router_data = [p \in Procs |-> NewRouterData("card")]
    /\ old_access_token = [p \in Procs |-> None]
    /\ required = [p \in Procs |-> None]
    /\ new_token = [p \in Procs |-> None]
    /\ result = [p \in Procs |-> NoResult]
    /\ should_continue = [p \in Procs |-> None]
    /\ trace = [p \in Procs |-> <<>>]
    /\ payout = NoPayout
    /\ norm = NoNorm

NextRace ==
    \/ \E p \in Procs :
         \/ ReadCache(p)
         \/ DecideRefresh(p)
         \/ Refresh(p)
         \/ Persist(p)
         \/ Merge(p)
    \/ Tick

SpecRace == InitRace /\ [][NextRace]_vars

-----------------------------------------------------------------------------
(* The Wise error normalizer (connector/wise.rs): build_error_response and *)
(* the payout-cancel get_error_response.  A raw response is                *)
(* [status_code, response]; its body either parses into wise::ErrorResponse*)
(* {errors, status, message} or does not parse.                            *)

SubError(c, m) == [code |-> c, message |-> m]
SubErrorLists ==
    {<<>>, <<SubError("c1", "m1")>>,
     <<SubError("c1", "m1"), SubError("c2", "m2")>>,
     <<SubError("c2", "m2"), SubError("c1", "m1")>>}

ErrorBody(errs, st, msg) ==
    [wellformed |-> TRUE, errors |-> errs, status |-> st, message |-> msg]
MalformedBody ==
    [wellformed |-> FALSE, errors |-> None, status |-> None, message |-> None]

ErrorBodies ==
    {MalformedBody}
      \cup {ErrorBody(errs, st, msg) :
              errs \in {None} \cup {Some(l) : l \in SubErrorLists},
              st \in {None, Some(0), Some(7), Some(42)},
              msg \in {None, Some("top")}}

HttpErrorStatuses == {400, 422}
ErrorHttpResponses ==
    {[status_code |-> c, response |-> b] : c \in HttpErrorStatuses, b \in ErrorBodies}

\* variant: a body that does not parse is read as an error without fields
parse_struct_lenient(body) ==
    Ok_(body)

\* res.response.parse_struct("ErrorResponse")
parse_struct(body) ==
    IF body.wellformed THEN Ok_(body) ELSE Err_("ParsingError")

\* Option::unwrap_or_default for an integer and for a String
unwrap_or_default_int(o) == IF IsSome(o) THEN Unwrap(o) ELSE 0
unwrap_or_default_string(o) == IF IsSome(o) THEN Unwrap(o) ELSE ""

\* variant: the status code of the default error response is used
NormalizedError_default_status(status_code, code, message) ==
    [status_code |-> DefaultErrorResponse.status_code, code |-> code,
     message |-> message, reason |-> None]

NormalizedError(status_code, code, message) ==
    [status_code |-> status_code, code |-> code, message |-> message,
     reason |-> None]

\* variant: the last sub-error is taken
build_error_response_last(res) ==
    LET parsed == parse_struct(res.response)
    IN  IF parsed.tag = "Err"
          THEN Err_("ResponseDeserializationFailed")
          ELSE LET response == parsed.val
                   default_status == ToString(unwrap_or_default_int(response.status))
                   top == NormalizedError(res.status_code, default_status,
                              unwrap_or_default_string(response.message))
               IN  IF IsSome(response.errors)
                     THEN LET errs == Unwrap(response.errors)
                          IN  IF Len(errs) > 0
                                THEN Ok_(NormalizedError(res.status_code,
                                         errs[Len(errs)].code, errs[Len(errs)].message))
                                ELSE Ok_(top)
                     ELSE Ok_(top)

\* variant: an error reported by the processor is a fault of the call
build_error_response_fatal(res) ==
    Err_("ProcessingStepFailed")

\* variant: an empty list of sub-errors gives the defaults of the types
build_error_response_empty_list_defaults(res) ==
    LET parsed == parse_struct(res.response)
    IN  IF parsed.tag = "Err"
          THEN Err_("ResponseDeserializationFailed")
          ELSE LET response == parsed.val
                   default_status == ToString(unwrap_or_default_int(response.status))
               IN  IF IsSome(response.errors)
                     THEN LET errs == Unwrap(response.errors)
                          IN  IF Len(errs) > 0
                                THEN Ok_(NormalizedError(res.status_code,
                                         errs[1].code, errs[1].message))
                                ELSE Ok_(NormalizedError(res.status_code,
                                         ToString(unwrap_or_default_int(None)),
                                         unwrap_or_default_string(None)))
                     ELSE Ok_(NormalizedError(res.status_code, default_status,
                              unwrap_or_default_string(response.message)))

\* Wise::build_error_response, lines 72-106
build_error_response(res) ==
    LET parsed == parse_struct(res.response)
    IN  IF parsed.tag = "Err"
          THEN Err_("ResponseDeserializationFailed")
          ELSE LET response == parsed.val
                   default_status == ToString(unwrap_or_default_int(response.status))
               IN  IF IsSome(response.errors)
                     THEN LET errs == Unwrap(response.errors)
                          IN  IF Len(errs) > 0
                                THEN Ok_(NormalizedError(res.status_code,
                                         errs[1].code, errs[1].message))
                                ELSE Ok_(NormalizedError(res.status_code,
                                         default_status,
                                         unwrap_or_default_string(response.message)))
                     ELSE Ok_(NormalizedError(res.status_code, default_status,
                              unwrap_or_default_string(response.message)))

\* ConnectorIntegration<PCancel>::get_error_response, lines 275-310
PCancel_get_error_response(res) ==
    LET parsed == parse_struct(res.response)
    IN  IF parsed.tag = "Err"
          THEN Err_("ResponseDeserializationFailed")
          ELSE LET response == parsed.val
                   def_res == ToString(unwrap_or_default_int(response.status))
               IN  IF IsSome(response.errors)
                     THEN LET errs == Unwrap(response.errors)
                          IN  IF Len(errs) > 0
                                THEN Ok_(NormalizedError(res.status_code,
                                         errs[1].code, errs[1].message))
                                ELSE Ok_(NormalizedError(res.status_code, def_res,
                                         unwrap_or_default_string(response.message)))
                     ELSE Ok_(NormalizedError(res.status_code, def_res,
                              unwrap_or_default_string(response.message)))

\* the two entry points of the normalizer
NormalizerEntries == {"build_error_response", "PCancel::get_error_response"}

InitError ==
    /\ now = 0
    /\ cache = [k \in Keys |-> None]
    /\ metrics = 0
    /\ minted = 0
    /\ pc = [p \in Procs |-> "idle"]
    /\ call = [p \in Procs |-> NoCall]
    /\ router_data = [p \in Procs |-> NewRouterData("card")]
    /\ old_access_token = [p \in Procs |-> None]
    /\ required = [p \in Procs |-> None]
    /\ new_token = [p \in Procs |-> None]
    /\ result = [p \in Procs |-> NoResult]
    /\ should_continue = [p \in Procs |-> None]
    /\ trace = [p \in Procs |-> <<>>]
    /\ payout = NoPayout
    /\ \E f \in NormalizerEntries, r \in ErrorHttpResponses :
         norm = [pc |-> "called", entry |-> f, res |-> r, out |-> NoResult]

\* the transport reported a non-success outcome: the normalizer runs
Normalize ==
    /\ norm.pc = "called"
    /\ norm' = [norm EXCEPT
                  !.pc = "returned",
                  !.out = IF norm.entry = "build_error_response"
                            THEN build_error_response(norm.res)
                            ELSE PCancel_get_error_response(norm.res)]
    /\ UNCHANGED <<token_vars, payout>>

NextError == Normalize

SpecError == InitError /\ [][NextError]_vars

-----------------------------------------------------------------------------
(* Wise payout-create with its quote pretask (connector/wise.rs, the       *)
(* PoQuote and PCreate integrations).  A URL is the sequence of the pieces *)
(* format! concatenates, so that what a URL embeds can be asked of it.     *)

base_url == "https://api.sandbox.transferwise.tech/"

BodyKey(k, k1) == [tag |-> "BodyKey", api_key |-> k, key1 |-> k1]
HeaderKey(k) == [tag |-> "HeaderKey", api_key |-> k]
ConnectorAuthTypes ==
    {BodyKey("api_key_1", "profile_1"), BodyKey("api_key_2", "profile_2"),
     HeaderKey("api_key_1")}

PriorQuoteIds == {"q_old"}
NewQuoteIds == {"q_new_1", "q_new_2"}
TransferIds == {"t_1", "t_2"}

PayoutsData(quote_id, connector_payout_id) ==
    [quote_id |-> quote_id, connector_payout_id |-> connector_payout_id]

PayoutsRouterData(flow, auth, request, response) ==
    [flow |-> flow, connector_auth_type |-> auth, request |-> request,
     response |-> response]

\* PayoutsRouterData::from((&router_data, request)): the same context under
\* another flow tag
PayoutsRouterData_from(flow, rd, request) ==
    PayoutsRouterData(flow, rd.connector_auth_type, request, rd.response)

\* wise::WiseAuthType::try_from(&req.connector_auth_type)
WiseAuthType_try_from(auth) ==
    IF auth.tag = "BodyKey"
      THEN Ok_([api_key |-> auth.api_key, profile_id |-> auth.key1])
      ELSE Err_("FailedToObtainAuthType")

\* Wise::build_headers, lines 31-47
build_headers(req) ==
    LET auth == WiseAuthType_try_from(req.connector_auth_type)
    IN  IF auth.tag = "Err"
          THEN Err_("FailedToObtainAuthType")
          ELSE Ok_(<<[name |-> "Content-Type", value |-> "application/json"],
                     [name |-> "Authorization", value |-> auth.val.api_key]>>)

\* what the request transformers and the JSON encoder can answer for a body
RequestBodyOutcomes ==
    {Ok_(Some("json")), Err_("RequestEncodingFailed")}

\* ConnectorIntegration<PoQuote>::get_url, lines 317-328
PoQuote_get_url(req) ==
    LET auth == WiseAuthType_try_from(req.connector_auth_type)
    IN  IF auth.tag = "Err"
          THEN Err_("FailedToObtainAuthType")
          ELSE Ok_(<<base_url, "v3/profiles/", auth.val.profile_id, "/quotes">>)

\* variant: the headers are resolved before the URL
RequestBuilder_headers_first(flow, method, url, headers, body) ==
    IF headers.tag = "Err" THEN Err_(headers.val)
    ELSE IF url.tag = "Err" THEN Err_(url.val)
    ELSE IF body.tag = "Err" THEN Err_(body.val)
    ELSE Ok_([flow |-> flow, method |-> method, url |-> url.val,
              headers |-> headers.val, body |-> body.val])

\* RequestBuilder: url, then headers, then body; the first error is returned
RequestBuilder(flow, method, url, headers, body) ==
    IF url.tag = "Err" THEN Err_(url.val)
    ELSE IF headers.tag = "Err" THEN Err_(headers.val)
    ELSE IF body.tag = "Err" THEN Err_(body.val)
    ELSE Ok_([flow |-> flow, method |-> method, url |-> url.val,
              headers |-> headers.val, body |-> body.val])

\* ConnectorIntegration<PoQuote>::build_request, lines 349-363
PoQuote_build_request(req, body) ==
    RequestBuilder("PoQuote", "Post", PoQuote_get_url(req), build_headers(req), body)

\* variant: the quote id of the request is put into the URL
PCreate_get_url_with_quote_id(req) ==
    Ok_(<<base_url, "/v1/transfers/", unwrap_or_default_string(req.request.quote_id)>>)

\* ConnectorIntegration<PCreate>::get_url, lines 501-507
PCreate_get_url(req) ==
    Ok_(<<base_url, "/v1/transfers">>)

\* ConnectorIntegration<PCreate>::build_request, lines 529-543
PCreate_build_request(req, body) ==
    RequestBuilder("PCreate", "Post", PCreate_get_url(req), build_headers(req), body)

\* ConnectorIntegration<PCancel>::get_url, lines 207-221
PCancel_get_url(req) ==
    IF req.request.connector_payout_id = None
      THEN Err_("MissingRequiredField transfer_id")
      ELSE Ok_(<<base_url, "v1/transfers/",
                 Unwrap(req.request.connector_payout_id), "/cancel">>)

\* ConnectorIntegration<PCancel>::get_headers, lines 223-238
PCancel_get_headers(req) ==
    LET auth == WiseAuthType_try_from(req.connector_auth_type)
    IN  IF auth.tag = "Err"
          THEN Err_("FailedToObtainAuthType")
          ELSE Ok_(<<[name |-> "Content-Type", value |-> "application/json"],
                     [name |-> "Authorization", value |-> auth.val.api_key]>>)

\* ConnectorIntegration<PCancel>::build_request, lines 240-253: no body
PCancel_build_request(req) ==
    RequestBuilder("PCancel", "Put", PCancel_get_url(req),
                   PCancel_get_headers(req), Ok_(None))

\* ConnectorIntegration<PFulfill>::get_url, lines 584-600
PFulfill_get_url(req) ==
    LET auth == WiseAuthType_try_from(req.connector_auth_type)
    IN  IF auth.tag = "Err"
          THEN Err_("FailedToObtainAuthType")
          ELSE IF req.request.connector_payout_id = None
                 THEN Err_("MissingRequiredField transfer_id")
                 ELSE Ok_(<<base_url, "v3/profiles/", auth.val.profile_id,
                            "/transfers/",
                            Unwrap(req.request.connector_payout_id), "/payments">>)

\* ConnectorIntegration<PFulfill>::build_request, lines 622-638
PFulfill_build_request(req, body) ==
    RequestBuilder("PFulfill", "Post", PFulfill_get_url(req), build_headers(req), body)

\* build_request of the flow of the context
build_request(req, body) ==
    IF req.flow = "PCancel" THEN PCancel_build_request(req)
    ELSE IF req.flow = "PFulfill" THEN PFulfill_build_request(req, body)
    ELSE IF req.flow = "PoQuote" THEN PoQuote_build_request(req, body)
    ELSE PCreate_build_request(req, body)

\* get_error_response of the flow of the context: PCancel has its own
\* (lines 275-310), the other flows call build_error_response
get_error_response(flow, res) ==
    IF flow = "PCancel"
      THEN PCancel_get_error_response(res)
      ELSE build_error_response(res)

\* a 2xx response of the processor: a body that parses and carries an id,
\* or one that does not parse
SuccessBody(id) == [wellformed |-> TRUE, id |-> id]
MalformedSuccessBody == [wellformed |-> FALSE, id |-> ""]
SuccessHttpResponses(ids) ==
    {[status_code |-> 200, response |-> b] :
        b \in {MalformedSuccessBody} \cup {SuccessBody(i) : i \in ids}}

\* the non-2xx responses the payout flows are run against
PayoutErrorHttpResponses ==
    {[status_code |-> 422, response |-> b] :
        b \in {MalformedBody,
               ErrorBody(Some(<<SubError("c1", "m1")>>), Some(7), Some("top")),
               ErrorBody(None, Some(7), Some("top"))}}

\* handle_response of PoQuote (lines 365-380) and of PCreate (lines 545-560)
handle_response(data, res) ==
    IF ~res.response.wellformed \/ "id" \notin DOMAIN res.response
      THEN Err_("ResponseDeserializationFailed")
      ELSE Ok_([data EXCEPT
                  !.response = Ok_([status |-> "RequiresCreation",
                                    connector_payout_id |-> res.response.id])])

\* variant: every response is handed to handle_response
ParserFor_always_success(res) ==
    "handle_response"

\* the parser execute_connector_processing_step picks for a response
ParserFor(res) ==
    IF res.status_code = 200 THEN "handle_response" ELSE "get_error_response"

\* execute_connector_processing_step after the send: a 2xx response goes to
\* handle_response, any other to get_error_response, whose result becomes
\* the context's outcome
ProcessResponse(data, res) ==
    IF ParserFor(res) = "handle_response"
      THEN handle_response(data, res)
      ELSE LET error == get_error_response(data.flow, res)
           IN  IF error.tag = "Err"
                 THEN Err_(error.val)
                 ELSE Ok_([data EXCEPT !.response = Err_(error.val)])

\* variant: a failed quote call clears the quote id of the parent
execute_pretasks_result_clears_on_error(rd, quote_router_resp) ==
    IF quote_router_resp.tag = "Err"
      THEN [router_data |-> [rd EXCEPT !.request.quote_id = None],
            ret |-> Err_(quote_router_resp.val)]
      ELSE IF quote_router_resp.val.response.tag = "Ok"
             THEN [router_data |->
                     [rd EXCEPT !.request.quote_id =
                        Some(quote_router_resp.val.response.val.connector_payout_id)],
                   ret |-> Ok_("unit")]
             ELSE [router_data |-> rd, ret |-> Ok_("unit")]

\* variant: the identifier is written to connector_payout_id
execute_pretasks_result_other_field(rd, quote_router_resp) ==
    IF quote_router_resp.tag = "Err"
      THEN [router_data |-> rd, ret |-> Err_(quote_router_resp.val)]
      ELSE IF quote_router_resp.val.response.tag = "Ok"
             THEN [router_data |->
                     [rd EXCEPT !.request.connector_payout_id =
                        Some(quote_router_resp.val.response.val.connector_payout_id)],
                   ret |-> Ok_("unit")]
             ELSE [router_data |-> rd, ret |-> Ok_("unit")]

\* Wise::execute_pretasks from the answer of the quote sub-flow on,
\* lines 494-498
execute_pretasks_result(rd, quote_router_resp) ==
    IF quote_router_resp.tag = "Err"
      THEN [router_data |-> rd, ret |-> Err_(quote_router_resp.val)]
      ELSE IF quote_router_resp.val.response.tag = "Ok"
             THEN [router_data |->
                     [rd EXCEPT !.request.quote_id =
                        Some(quote_router_resp.val.response.val.connector_payout_id)],
                   ret |-> Ok_("unit")]
             ELSE [router_data |-> rd, ret |-> Ok_("unit")]

NetworkCall(request, action) ==
    [flow |-> request.flow, call_connector_action |-> action, url |-> request.url]

PayoutInputs ==
    {PayoutsRouterData("PCreate", auth, PayoutsData(q, None), Err_(DefaultErrorResponse)) :
        auth \in ConnectorAuthTypes,
        q \in {None} \cup {Some(i) : i \in PriorQuoteIds}}

NewPayout(rd, action) ==
    [pc |-> "start", call_connector_action |-> action, router_data |-> rd,
     input |-> rd, quote_res |-> None, quote_router_resp |-> NoResult,
     pretask_result |-> NoResult, calls |-> <<>>, main_res |-> None,
     result |-> NoResult]

InitPayout ==
    /\ now = 0
    /\ cache = [k \in Keys |-> None]
    /\ metrics = 0
    /\ minted = 0
    /\ pc = [p \in Procs |-> "idle"]
    /\ call = [p \in Procs |-> NoCall]
    /\ router_data = [p \in Procs |-> NewRouterData("card")]
    /\ old_access_token = [p \in Procs |-> None]
    /\ required = [p \in Procs |-> None]
    /\ new_token = [p \in Procs |-> None]
    /\ result = [p \in Procs |-> NoResult]
    /\ should_continue = [p \in Procs |-> None]
    /\ trace = [p \in Procs |-> <<>>]
    /\ norm = NoNorm
    /\ \E rd \in PayoutInputs, action \in CallConnectorAction :
         payout = NewPayout(rd, action)

\* execute_connector_processing_step for PCreate: Skip returns the context
\* as it is, Trigger goes on to the pretasks
PayoutOrchestrate ==
    /\ payout.pc = "start"
    /\ payout' = IF payout.call_connector_action = "Skip"
                   THEN [payout EXCEPT !.pc = "done",
                                       !.result = Ok_(payout.router_data)]
                   ELSE [payout EXCEPT !.pc = "pretasks"]
    /\ UNCHANGED <<token_vars, norm>>

\* variant: a request that already carries a quote id is not quoted again
PretaskQuoteRequest_keeps_quote ==
    /\ payout.pc = "pretasks"
    /\ \E body \in RequestBodyOutcomes :
         LET quote_router_data ==
                 PayoutsRouterData_from("PoQuote", payout.router_data,
                                        payout.router_data.request)
             request == PoQuote_build_request(quote_router_data, body)
             out == execute_pretasks_result(payout.router_data, Err_(request.val))
         IN  payout' =
               IF IsSome(payout.router_data.request.quote_id)
                 THEN [payout EXCEPT !.pc = "main",
                                     !.pretask_result = Ok_("unit")]
               ELSE IF request.tag = "Err"
                 THEN [payout EXCEPT !.pc = "aborted",
                                     !.quote_router_resp = Err_(request.val),
                                     !.router_data = out.router_data,
                                     !.pretask_result = out.ret,
                                     !.result = Err_(request.val)]
                 ELSE [payout EXCEPT !.pc = "quote_sent",
                                     !.calls = Append(@, NetworkCall(request.val, "Trigger"))]
    /\ UNCHANGED <<token_vars, norm>>

\* variant: the pretask goes on without sending the quote request
PretaskQuoteRequest_no_call ==
    /\ payout.pc = "pretasks"
    /\ payout' = [payout EXCEPT !.pc = "quote_sent"]
    /\ UNCHANGED <<token_vars, norm>>

\* Wise::execute_pretasks, lines 476-494: the quote context is derived and
\* the quote sub-flow is run with Trigger, up to the send
PretaskQuoteRequest ==
    /\ payout.pc = "pretasks"
    /\ \E body \in RequestBodyOutcomes :
         LET quote_router_data ==
                 PayoutsRouterData_from("PoQuote", payout.router_data,
                                        payout.router_data.request)
             request == PoQuote_build_request(quote_router_data, body)
             out == execute_pretasks_result(payout.router_data, Err_(request.val))
         IN  payout' =
               IF request.tag = "Err"
                 THEN [payout EXCEPT !.pc = "aborted",
                                     !.quote_router_resp = Err_(request.val),
                                     !.router_data = out.router_data,
                                     !.pretask_result = out.ret,
                                     !.result = Err_(request.val)]
                 ELSE [payout EXCEPT !.pc = "quote_sent",
                                     !.calls = Append(@, NetworkCall(request.val, "Trigger"))]
    /\ UNCHANGED <<token_vars, norm>>

\* Wise::execute_pretasks, lines 494-498: the quote sub-flow answers
PretaskQuoteResponse ==
    /\ payout.pc = "quote_sent"
    /\ \E res \in SuccessHttpResponses(NewQuoteIds) \cup PayoutErrorHttpResponses :
         LET quote_router_data ==
                 PayoutsRouterData_from("PoQuote", payout.router_data,
                                        payout.router_data.request)
             quote_router_resp == ProcessResponse(quote_router_data, res)
             out == execute_pretasks_result(payout.router_data, quote_router_resp)
         IN  payout' =
               [payout EXCEPT
                  !.pc = IF out.ret.tag = "Ok" THEN "main" ELSE "aborted",
                  !.quote_res = Some(res),
                  !.quote_router_resp = quote_router_resp,
                  !.router_data = out.router_data,
                  !.pretask_result = out.ret,
                  !.result = IF out.ret.tag = "Ok" THEN @ ELSE Err_(out.ret.val)]
    /\ UNCHANGED <<token_vars, norm>>

\* the main cycle of PCreate up to the send: PCreate build_request
CreateRequest ==
    /\ payout.pc = "main"
    /\ \E body \in RequestBodyOutcomes :
         LET request == PCreate_build_request(payout.router_data, body)
         IN  payout' =
               IF request.tag = "Err"
                 THEN [payout EXCEPT !.pc = "aborted",
                                     !.result = Err_(request.val)]
                 ELSE [payout EXCEPT !.pc = "main_sent",
                                     !.calls = Append(@, NetworkCall(request.val,
                                                   payout.call_connector_action))]
    /\ UNCHANGED <<token_vars, norm>>

\* the main cycle of PCreate from the response on
CreateResponse ==
    /\ payout.pc = "main_sent"
    /\ \E res \in SuccessHttpResponses(TransferIds) \cup PayoutErrorHttpResponses :
         LET out == ProcessResponse(payout.router_data, res)
         IN  payout' =
               IF out.tag = "Err"
                 THEN [payout EXCEPT !.pc = "aborted", !.main_res = Some(res),
                                     !.result = Err_(out.val)]
                 ELSE [payout EXCEPT !.pc = "done", !.main_res = Some(res),
                                     !.result = Ok_(out.val)]
    /\ UNCHANGED <<token_vars, norm>>

NextPayout ==
    \/ PayoutOrchestrate
    \/ PretaskQuoteRequest
    \/ PretaskQuoteResponse
    \/ CreateRequest
    \/ CreateResponse

SpecPayout == InitPayout /\ [][NextPayout]_vars

-----------------------------------------------------------------------------
(* One cycle of a Wise payout flow without pretasks (PoQuote, PFulfill,    *)
(* PCancel): build_request, send, then handle_response or                  *)
(* get_error_response.                                                     *)

CycleFlows == {"PoQuote", "PFulfill", "PCancel"}

CycleInputs ==
    {PayoutsRouterData(flow, auth, PayoutsData(None, t), Err_(DefaultErrorResponse)) :
        flow \in CycleFlows,
        auth \in ConnectorAuthTypes,
        t \in {None} \cup {Some(i) : i \in TransferIds}}

NewCycle(rd, action, body) ==
    [pc |-> "start", call_connector_action |-> action, router_data |-> rd,
     input |-> rd, body |-> body, request |-> None, calls |-> <<>>,
     parsers |-> <<>>, main_res |-> None, result |-> NoResult]

InitCycle ==
    /\ now = 0
    /\ cache = [k \in Keys |-> None]
    /\ metrics = 0
    /\ minted = 0
    /\ pc = [p \in Procs |-> "idle"]
    /\ call = [p \in Procs |-> NoCall]
    /\ router_data = [p \in Procs |-> NewRouterData("card")]
    /\ old_access_token = [p \in Procs |-> None]
    /\ required = [p \in Procs |-> None]
    /\ new_token = [p \in Procs |-> None]
    /\ result = [p \in Procs |-> NoResult]
    /\ should_continue = [p \in Procs |-> None]
    /\ trace = [p \in Procs |-> <<>>]
    /\ norm = NoNorm
    /\ \E rd \in CycleInputs, action \in CallConnectorAction,
          body \in RequestBodyOutcomes :
         payout = NewCycle(rd, action, body)

\* execute_connector_processing_step: Skip returns the context as it is,
\* Trigger goes on to build the request
CycleStart ==
    /\ payout.pc = "start"
    /\ payout' = IF payout.call_connector_action = "Skip"
                   THEN [payout EXCEPT !.pc = "done",
                                       !.result = Ok_(payout.router_data)]
                   ELSE [payout EXCEPT !.pc = "build"]
    /\ UNCHANGED <<token_vars, norm>>

\* build_request of the flow; a request that was built is sent
CycleBuild ==
    /\ payout.pc = "build"
    /\ LET request == build_request(payout.router_data, payout.body)
       IN  payout' =
             IF request.tag = "Err"
               THEN [payout EXCEPT !.pc = "aborted",
                                   !.result = Err_(request.val)]
               ELSE [payout EXCEPT !.pc = "main_sent",
                                   !.request = Some(request.val),
                                   !.calls = Append(@, NetworkCall(request.val,
                                                 payout.call_connector_action))]
    /\ UNCHANGED <<token_vars, norm>>

\* the response arrives and is handed to the parser chosen for it
CycleRespond ==
    /\ payout.pc = "main_sent"
    /\ \E res \in SuccessHttpResponses(TransferIds) \cup PayoutErrorHttpResponses :
         LET out == ProcessResponse(payout.router_data, res)
         IN  payout' =
               [payout EXCEPT
                  !.pc = IF out.tag = "Err" THEN "aborted" ELSE "done",
                  !.main_res = Some(res),
                  !.parsers = Append(@, ParserFor(res)),
                  !.result = out]
    /\ UNCHANGED <<token_vars, norm>>

NextCycle ==
    \/ CycleStart
    \/ CycleBuild
    \/ CycleRespond

SpecCycle == InitCycle /\ [][NextCycle]_vars

-----------------------------------------------------------------------------
(* Incoming webhooks of the Wise adapter (impl IncomingWebhook for Wise,   *)
(* lines 679-701).  A request is [method, headers, body, query_params].    *)

WebhookBodies ==
    {"", "{}", "not json",
     "{\"event_type\":\"transfers#state-change\",\"data\":{\"resource\":{\"id\":\"t_1\"}}}",
     "{\"event_type\":\"transfers#state-change\",\"data\":{\"resource\":{\"id\":\"t_2\"}}}",
     "{\"event_type\":\"balances#credit\"}"}
WebhookHeaders ==
    {<<>>, <<[name |-> "X-Signature-SHA256", value |-> "sig_1"]>>}
IncomingWebhookRequestDetails ==
    [method : {"Post", "Get"}, headers : WebhookHeaders, body : WebhookBodies,
     query_params : {"", "a=1"}]

\* lines 681-686
get_webhook_object_reference_id(request) ==
    Err_("WebhooksNotImplemented")

\* variant: the event type is read off the body when it names one
get_webhook_event_type_best_effort(request) ==
    IF request.body = "{\"event_type\":\"balances#credit\"}"
      THEN Ok_("EventNotSupported")
      ELSE Err_("WebhooksNotImplemented")

\* lines 688-693
get_webhook_event_type(request) ==
    Err_("WebhooksNotImplemented")

\* lines 695-700
get_webhook_resource_object(request) ==
    Err_("WebhooksNotImplemented")

WebhookOperations ==
    {"get_webhook_object_reference_id", "get_webhook_event_type",
     "get_webhook_resource_object"}

InitWebhook ==
    /\ now = 0
    /\ cache = [k \in Keys |-> None]
    /\ metrics = 0
    /\ minted = 0
    /\ pc = [p \in Procs |-> "idle"]
    /\ call = [p \in Procs |-> NoCall]
    /\ router_data = [p \in Procs |-> NewRouterData("card")]
    /\ old_access_token = [p \in Procs |-> None]
    /\ required = [p \in Procs |-> None]
    /\ new_token = [p \in Procs |-> None]
    /\ result = [p \in Procs |-> NoResult]
    /\ should_continue = [p \in Procs |-> None]
    /\ trace = [p \in Procs |-> <<>>]
    /\ payout = NoPayout
    /\ \E op \in WebhookOperations, request \in IncomingWebhookRequestDetails :
         norm = [pc |-> "called", entry |-> op, res |-> request, out |-> NoResult]

\* one of the three webhook operations is called with the request
Webhook ==
    /\ norm.pc = "called"
    /\ norm' = [norm EXCEPT
                  !.pc = "returned",
                  !.out = IF norm.entry = "get_webhook_object_reference_id"
                            THEN get_webhook_object_reference_id(norm.res)
                          ELSE IF norm.entry = "get_webhook_event_type"
                            THEN get_webhook_event_type(norm.res)
                          ELSE get_webhook_resource_object(norm.res)]
    /\ UNCHANGED <<token_vars, payout>>

NextWebhook == Webhook

SpecWebhook == InitWebhook /\ [][NextWebhook]_vars

-----------------------------------------------------------------------------
(* Vocabulary of the properties *)

Decided(p) == IsSome(required[p])
HasCreatedAt(o) == IsSome(o) /\ IsSome(Unwrap(o).refresh_token_created_at)
ExpiresAt(o) == Unwrap(Unwrap(o).refresh_token_created_at) + Unwrap(o).expires

\* a cached token that is to be reused at time clock
Fresh(o, clock) ==
    /\ IsSome(o)
    /\ (HasCreatedAt(o) => clock <= ExpiresAt(o))

\* the operations a call has performed, in order; IoOps leaves the metric out
Ops(p) == [i \in 1..Len(trace[p]) |-> trace[p][i].op]
IsIo(op) == op # "ACCESS_TOKEN_CREATION"
IoOps(p) == SelectSeq(Ops(p), IsIo)
Refreshed(p) ==
    \E i \in 1..Len(trace[p]) : trace[p][i].op = "execute_connector_processing_step"

Supported(p) ==
    supports_access_token(call[p].connector, router_data[p].payment_method)
Outcome(p) == result[p].val.access_token_result
MergeStep(p) == pc[p] = "returned" /\ pc'[p] = "merged"

-----------------------------------------------------------------------------
(* C1: for a cached token with a creation timestamp, the decision is       *)
(* "refresh" exactly when the clock is strictly past created_at + expires; *)
(* at the boundary instant and before it the token is kept.                *)
C1_RequiredIffPastExpiry ==
    \A p \in Procs :
        (Decided(p) /\ HasCreatedAt(old_access_token[p]))
            => (Unwrap(required[p]) <=> now > ExpiresAt(old_access_token[p]))

C1_Witness_Boundary ==
    \E p \in Procs :
        /\ Decided(p)
        /\ HasCreatedAt(old_access_token[p])
        /\ now = ExpiresAt(old_access_token[p])
        /\ required[p] = Some(FALSE)

(* C2: with no cached token the decision is "refresh", and the call goes   *)
(* on to the refresh: it stands before it or has made the refresh call.    *)
C2_AbsentTokenRefreshes ==
    \A p \in Procs :
        (Decided(p) /\ old_access_token[p] = None)
            => /\ required[p] = Some(TRUE)
               /\ (pc[p] = "refresh" \/ Refreshed(p))

C2_Witness_AbsentToken ==
    \E p \in Procs :
        /\ Decided(p)
        /\ old_access_token[p] = None
        /\ pc[p] \in {"returned", "merged"}
        /\ Refreshed(p)

(* C3: for a cached token without a creation timestamp the decision is     *)
(* "keep", whatever the expiry duration and the clock: the call returns    *)
(* without a refresh call.                                                 *)
C3_NoCreatedAtNeverRefreshes ==
    \A p \in Procs :
        (Decided(p) /\ IsSome(old_access_token[p])
                    /\ ~HasCreatedAt(old_access_token[p]))
            => /\ required[p] = Some(FALSE)
               /\ pc[p] \in {"returned", "merged"}
               /\ ~Refreshed(p)

C3_Witness_PastExpiry ==
    \E p \in Procs :
        /\ Decided(p)
        /\ IsSome(old_access_token[p])
        /\ ~HasCreatedAt(old_access_token[p])
        /\ now > Unwrap(old_access_token[p]).expires
        /\ required[p] = Some(FALSE)

(* C4: a merge whose result says the connector does not support access     *)
(* tokens leaves the context as it was and returns true, for either        *)
(* Call-Action and any token outcome.                                      *)
C4_UnsupportedMergeIsNoOp ==
    [][\A p \in Procs :
          (MergeStep(p) /\ ~result[p].val.connector_supports_access_token)
              => /\ router_data'[p] = router_data[p]
                 /\ should_continue'[p] = Some(TRUE)]_vars

C4_Witness_UnsupportedTrigger ==
    \E p \in Procs :
        /\ pc[p] = "merged"
        /\ ~result[p].val.connector_supports_access_token
        /\ call[p].call_connector_action = "Trigger"
        /\ Outcome(p).tag = "Ok"
        /\ Outcome(p).val = Some(TokenB)
        /\ router_data[p].access_token = Some(TokenA)
        /\ should_continue[p] = Some(TRUE)

(* C5: a merge under Call-Action Skip leaves the context as it was and     *)
(* returns true, whatever the support flag and the token outcome.          *)
C5_SkipMergeIsNoOp ==
    [][\A p \in Procs :
          (MergeStep(p) /\ call[p].call_connector_action = "Skip")
              => /\ router_data'[p] = router_data[p]
                 /\ should_continue'[p] = Some(TRUE)]_vars

C5_Witness_SupportedSkip ==
    \E p \in Procs :
        /\ pc[p] = "merged"
        /\ result[p].val.connector_supports_access_token
        /\ call[p].call_connector_action = "Skip"
        /\ Outcome(p).tag = "Err"
        /\ Outcome(p).val = ConnectorErrorResponse
        /\ router_data[p].response = Err_(DefaultErrorResponse)
        /\ should_continue[p] = Some(TRUE)

(* C6: a merge with support, Trigger and a failed token outcome sets the   *)
(* context's outcome to that error, returns false and leaves the           *)
(* access-token slot as it was.                                            *)
C6_FailedTokenStops ==
    [][\A p \in Procs :
          (/\ MergeStep(p)
           /\ result[p].val.connector_supports_access_token
           /\ call[p].call_connector_action = "Trigger"
           /\ Outcome(p).tag = "Err")
              => /\ router_data'[p].response = Err_(Outcome(p).val)
                 /\ router_data'[p].access_token = router_data[p].access_token
                 /\ should_continue'[p] = Some(FALSE)]_vars

C6_Witness_FailedToken ==
    \E p \in Procs :
        /\ pc[p] = "merged"
        /\ result[p].val.connector_supports_access_token
        /\ call[p].call_connector_action = "Trigger"
        /\ Outcome(p).tag = "Err"
        /\ Outcome(p).val = ConnectorErrorResponse
        /\ router_data[p].response = Err_(ConnectorErrorResponse)
        /\ router_data[p].access_token = Some(TokenA)
        /\ should_continue[p] = Some(FALSE)

(* C7: a merge with support, Trigger and a successful token outcome sets   *)
(* the context's access-token slot to the token of the result, returns     *)
(* true and leaves the context's outcome as it was.                        *)
C7_TokenStoredAndContinue ==
    [][\A p \in Procs :
          (/\ MergeStep(p)
           /\ result[p].val.connector_supports_access_token
           /\ call[p].call_connector_action = "Trigger"
           /\ Outcome(p).tag = "Ok")
              => /\ router_data'[p].access_token = Outcome(p).val
                 /\ router_data'[p].response = router_data[p].response
                 /\ should_continue'[p] = Some(TRUE)]_vars

C7_Witness_TokenStored ==
    \E p \in Procs :
        /\ pc[p] = "merged"
        /\ result[p].val.connector_supports_access_token
        /\ call[p].call_connector_action = "Trigger"
        /\ Outcome(p).tag = "Ok"
        /\ Outcome(p).val = Some(TokenB)
        /\ router_data[p].access_token = Some(TokenB)
        /\ router_data[p].response = Err_(ConnectorErrorResponse)
        /\ should_continue[p] = Some(TRUE)

(* C8: for a connector without access-token support the whole of           *)
(* add_access_token is one step: it returns supports = false with the      *)
(* default error, having read no cache, made no refresh call, counted no   *)
(* metric and written no cache.                                            *)
C8_UnsupportedDoesNoIo ==
    [][\A p \in Procs :
          /\ (pc[p] = "check_support" /\ pc'[p] # "check_support" /\ ~Supported(p))
                => /\ pc'[p] = "returned"
                   /\ result'[p] =
                        Ok_(AddAccessTokenResult(Err_(DefaultErrorResponse), FALSE))
                   /\ trace'[p] = <<>>
                   /\ cache' = cache
                   /\ metrics' = metrics
          /\ (pc[p] \in {"returned", "merged"} /\ ~Supported(p))
                => trace[p] = <<>>]_vars

C8_Witness_Unsupported ==
    \E p \in Procs :
        /\ pc[p] = "returned"
        /\ ~Supported(p)
        /\ ~result[p].val.connector_supports_access_token
        /\ trace[p] = <<>>
        /\ \E k \in Keys : IsSome(cache[k])

(* C9: with support and a fresh cached token, add_access_token returns     *)
(* that cached token with supports = true; the only I/O of the call is the *)
(* cache read: no refresh call, no metric, no cache write.                 *)
C9_FreshTokenReturnedAsIs ==
    [][\A p \in Procs :
          /\ (pc[p] = "read_cache" /\ pc'[p] = "decide")
                => /\ old_access_token'[p] = store_get_access_token(KeyOf(p))
                   /\ cache' = cache
          /\ (pc[p] = "decide" /\ pc'[p] # "decide"
                               /\ Fresh(old_access_token[p], now))
                => /\ pc'[p] = "returned"
                   /\ result'[p] =
                        Ok_(AddAccessTokenResult(Ok_(old_access_token[p]), TRUE))
                   /\ Ops(p) = <<"get_access_token">>
                   /\ trace'[p] = trace[p]
                   /\ cache' = cache
                   /\ metrics' = metrics]_vars

C9_Witness_FreshToken ==
    \E p \in Procs :
        /\ pc[p] = "returned"
        /\ required[p] = Some(FALSE)
        /\ HasCreatedAt(old_access_token[p])
        /\ Outcome(p).tag = "Ok"
        /\ Outcome(p).val = old_access_token[p]
        /\ Ops(p) = <<"get_access_token">>

(* C10: with support and an absent or stale cached token, the call reads   *)
(* the cache, then makes exactly one AccessTokenAuth call under Trigger,   *)
(* then, if that call gave a token, writes that token once under the key   *)
(* it read; the token it returns is the new one, not the cached one.       *)
C10_StaleTokenRefreshedInOrder ==
    [][\A p \in Procs :
          /\ (pc[p] = "decide" /\ pc'[p] # "decide"
                               /\ ~Fresh(old_access_token[p], now))
                => /\ pc'[p] = "refresh"
                   /\ trace'[p] = trace[p]
          /\ (pc[p] = "persist")
                => /\ Ops(p) = <<"get_access_token",
                                 "execute_connector_processing_step",
                                 "ACCESS_TOKEN_CREATION">>
                   /\ trace[p][2].arg = "Trigger"
                   /\ IsSome(new_token[p])
          /\ (pc[p] = "persist" /\ pc'[p] # "persist")
                => /\ pc'[p] = "returned"
                   /\ result'[p] =
                        Ok_(AddAccessTokenResult(Ok_(new_token[p]), TRUE))
                   /\ new_token[p] # old_access_token[p]
                   /\ \/ /\ trace'[p] = Append(trace[p],
                               FailedEvent("set_access_token", trace[p][1].key,
                                           new_token[p]))
                         /\ cache' = cache
                      \/ /\ trace'[p] = Append(trace[p],
                               Event("set_access_token", trace[p][1].key,
                                     new_token[p]))
                         /\ cache' = [cache EXCEPT ![trace[p][1].key] =
                                         Some([access_token |-> Unwrap(new_token[p]),
                                               set_at |-> now])]
          /\ (pc[p] \in {"returned", "merged"} /\ required[p] = Some(TRUE))
                => IoOps(p) = IF Outcome(p).tag = "Ok"
                                THEN <<"get_access_token",
                                       "execute_connector_processing_step",
                                       "set_access_token">>
                                ELSE <<"get_access_token",
                                       "execute_connector_processing_step">>]_vars

C10_Witness_StaleRefreshed ==
    \E p \in Procs :
        /\ pc[p] = "returned"
        /\ IsSome(old_access_token[p])
        /\ required[p] = Some(TRUE)
        /\ IoOps(p) = <<"get_access_token", "execute_connector_processing_step",
                        "set_access_token">>
        /\ Outcome(p).tag = "Ok"
        /\ Outcome(p).val = new_token[p]
        /\ IsSome(cache[KeyOf(p)])
        /\ Unwrap(cache[KeyOf(p)]).access_token = Unwrap(new_token[p])

(* C11: when the refresh gave a token and the cache write fails, the call   *)
(* still returns Ok with that new token and supports = true; the failure   *)
(* of the write does not reach the caller.                                 *)
WroteOk(p) ==
    \E i \in 1..Len(trace[p]) :
        trace[p][i].op = "set_access_token" /\ trace[p][i].ok
WriteFailed(p) ==
    \E i \in 1..Len(trace[p]) :
        trace[p][i].op = "set_access_token" /\ ~trace[p][i].ok

C11_WriteFailureNotPropagated ==
    \A p \in Procs :
        WriteFailed(p)
            => /\ pc[p] \in {"returned", "merged"}
               /\ IsSome(new_token[p])
               /\ result[p] = Ok_(AddAccessTokenResult(Ok_(new_token[p]), TRUE))

C11_Witness_WriteFailed ==
    \E p \in Procs :
        /\ WriteFailed(p)
        /\ pc[p] = "returned"
        /\ Outcome(p).val = new_token[p]
        /\ \A k \in Keys : cache[k] = None

(* C12: when the cache read fails, the call ends with an internal-failure  *)
(* error; it makes no refresh call and no cache write, and does not go on  *)
(* as if nothing were cached.                                              *)
ReadFailed(p) ==
    \E i \in 1..Len(trace[p]) :
        trace[p][i].op = "get_access_token" /\ ~trace[p][i].ok

C12_ReadFailureIsFatal ==
    [][\A p \in Procs :
          /\ ReadFailed(p)
                => /\ pc[p] = "failed"
                   /\ result[p] = Err_("InternalServerError")
                   /\ Ops(p) = <<"get_access_token">>
                   /\ required[p] = None
          /\ (pc[p] = "read_cache" /\ ReadFailed(p)')
                => /\ cache' = cache
                   /\ metrics' = metrics]_vars

C12_Witness_ReadFailed ==
    \E p \in Procs :
        /\ ReadFailed(p)
        /\ pc[p] = "failed"
        /\ result[p] = Err_("InternalServerError")

(* C13: two concurrent calls on one key that both found the token absent   *)
(* or stale: each call whose refresh gave a token returns Ok with it, and  *)
(* once both are over and a write succeeded, the cache entry holds, whole, *)
(* the token of one of the calls whose write succeeded: not the earlier    *)
(* token, not nothing.                                                     *)
Over(p) == pc[p] \in {"returned", "merged"}

C13_RaceLeavesOneNewToken ==
    \A p, q \in Procs :
        (/\ p # q
         /\ KeyOf(p) = KeyOf(q)
         /\ required[p] = Some(TRUE) /\ required[q] = Some(TRUE)
         /\ Over(p) /\ Over(q))
            => /\ IsSome(new_token[p]) => Outcome(p) = Ok_(new_token[p])
               /\ WroteOk(p)
                     => /\ IsSome(cache[KeyOf(p)])
                        /\ \E w \in {p, q} :
                              /\ WroteOk(w)
                              /\ Unwrap(cache[KeyOf(p)]).access_token
                                    = Unwrap(new_token[w])

C13_Witness_BothRefreshed ==
    \E p, q \in Procs :
        /\ p # q
        /\ Over(p) /\ Over(q)
        /\ WroteOk(p) /\ WroteOk(q)
        /\ IsSome(old_access_token[p])
        /\ old_access_token[p] = old_access_token[q]
        /\ Unwrap(cache[RaceKey]).access_token = Unwrap(new_token[q])

(* C14: each successful cache write replaces whatever the entry held,      *)
(* also a token another call wrote after this call read the cache: the     *)
(* entry holds the token of the call that wrote last.  The witness is the  *)
(* duplicate refresh: both calls read the same earlier token, both         *)
(* refreshed, both wrote, and the token minted first was written last.     *)
C14_LastWriteWins ==
    [][\A p \in Procs :
          (pc[p] = "persist" /\ WroteOk(p)')
              => cache' = [cache EXCEPT ![KeyOf(p)] =
                             Some([access_token |-> Unwrap(new_token[p]),
                                   set_at |-> now])]]_vars

C14_Witness_DuplicateRefresh ==
    \E p, q \in Procs :
        /\ p # q
        /\ Over(p) /\ Over(q)
        /\ WroteOk(p) /\ WroteOk(q)
        /\ IsSome(old_access_token[p])
        /\ old_access_token[p] = old_access_token[q]
        /\ Unwrap(new_token[p]).token < Unwrap(new_token[q]).token
        /\ Unwrap(cache[RaceKey]).access_token = Unwrap(new_token[p])

(* C20: when the parsed error has a non-empty list of sub-errors, the       *)
(* normalized code and message are those of the first entry, whatever the  *)
(* other entries and the top-level status and message hold.                *)
C20_FirstSubErrorWins ==
    (/\ norm.pc = "returned"
     /\ norm.res.response.wellformed
     /\ IsSome(norm.res.response.errors)
     /\ Len(Unwrap(norm.res.response.errors)) > 0)
        => /\ norm.out.tag = "Ok"
           /\ norm.out.val.code = Unwrap(norm.res.response.errors)[1].code
           /\ norm.out.val.message = Unwrap(norm.res.response.errors)[1].message

C20_Witness_SecondEntryIgnored ==
    /\ norm.pc = "returned"
    /\ norm.res.response.wellformed
    /\ norm.res.response.errors =
          Some(<<SubError("c2", "m2"), SubError("c1", "m1")>>)
    /\ norm.res.response.status = Some(7)
    /\ norm.res.response.message = Some("top")
    /\ norm.out = Ok_(NormalizedError(norm.res.status_code, "c2", "m2"))

-----------------------------------------------------------------------------
(* Vocabulary of the payout properties *)
CallIndexes(flow) ==
    {i \in 1..Len(payout.calls) : payout.calls[i].flow = flow}
QuoteCompleted == payout.quote_router_resp.tag = "Ok"
QuoteSucceeded ==
    QuoteCompleted /\ payout.quote_router_resp.val.response.tag = "Ok"
QuoteFailed ==
    \/ payout.quote_router_resp.tag = "Err"
    \/ QuoteCompleted /\ payout.quote_router_resp.val.response.tag = "Err"
QuotedId == payout.quote_router_resp.val.response.val.connector_payout_id
Embeds(url, id) == \E k \in 1..Len(url) : url[k] = id

(* C15: a call made with the top-level Call-Action Skip performs no network*)
(* call anywhere below it; in particular add_access_token called for an    *)
(* operation that runs under Skip never runs the token-refresh cycle.      *)
C15_SkipMakesNoNetworkCall ==
    \A p \in Procs :
        (pc[p] # "idle" /\ call[p].call_connector_action = "Skip")
            => ~Refreshed(p)

(* C16: whichever way the quote pretask fails - a fatal error of its cycle *)
(* or a completed cycle whose outcome is a normalized error -              *)
(* execute_pretasks returns an error and no transfer-create call is made.  *)
C16_QuoteFailureAborts ==
    (payout.pc # "none" /\ QuoteFailed)
        => /\ payout.pretask_result.tag = "Err"
           /\ CallIndexes("PCreate") = {}

(* C17: for a payout-create whose request carries no quote identifier, the *)
(* pretasks issue the quote call with Trigger, never more than once and    *)
(* exactly once when they complete, and every create call comes after it.  *)
C17_OneQuoteCallBeforeCreate ==
    (payout.pc # "none" /\ payout.input.request.quote_id = None)
        => /\ Cardinality(CallIndexes("PoQuote")) <= 1
           /\ \A i \in CallIndexes("PoQuote") :
                 payout.calls[i].call_connector_action = "Trigger"
           /\ (payout.pc = "quote_sent" \/ payout.pretask_result.tag = "Ok")
                 => Cardinality(CallIndexes("PoQuote")) = 1
           /\ \A j \in CallIndexes("PCreate") :
                 \E i \in CallIndexes("PoQuote") : i < j

C17_Witness_QuoteThenCreate ==
    /\ payout.pc = "main_sent"
    /\ payout.input.request.quote_id = None
    /\ Len(payout.calls) = 2
    /\ payout.calls[1].flow = "PoQuote"
    /\ payout.calls[1].call_connector_action = "Trigger"
    /\ payout.calls[2].flow = "PCreate"

(* C18 as stated: after the quote pretask succeeded, the URL of the create *)
(* call embeds the identifier the quote response carried.                  *)
C18_CreateUrlEmbedsQuoteId ==
    (payout.pc # "none" /\ QuoteSucceeded)
        => \A j \in CallIndexes("PCreate") :
              Embeds(payout.calls[j].url, QuotedId)

(* C18 amended: after the quote pretask succeeded, the identifier of the   *)
(* quote response is in the parent's request.quote_id when the create call *)
(* is built; the create URL is the base URL followed by /v1/transfers and  *)
(* does not embed the identifier.                                          *)
C18_QuoteIdInRequestNotInUrl ==
    (payout.pc # "none" /\ QuoteSucceeded)
        => \A j \in CallIndexes("PCreate") :
              /\ payout.calls[j].url = <<base_url, "/v1/transfers">>
              /\ ~Embeds(payout.calls[j].url, QuotedId)
              /\ payout.router_data.request.quote_id = Some(QuotedId)

C18_Witness_CreateAfterQuote ==
    /\ payout.pc = "main_sent"
    /\ QuoteSucceeded
    /\ QuotedId = "q_new_2"
    /\ payout.input.request.quote_id = Some("q_old")
    /\ CallIndexes("PCreate") = {2}

(* C19: when the quote sub-flow completes with a successful response,      *)
(* execute_pretasks returns Ok and the parent context afterwards is the    *)
(* one before with request.quote_id set to the identifier of that response;*)
(* credentials, the other request fields and the outcome are as before.    *)
C19_QuoteSuccessSetsQuoteId ==
    [][(/\ payout.pc = "quote_sent"
        /\ payout'.quote_router_resp.tag = "Ok"
        /\ payout'.quote_router_resp.val.response.tag = "Ok")
          => /\ payout'.pretask_result = Ok_("unit")
             /\ payout'.router_data =
                  [payout.router_data EXCEPT
                     !.request.quote_id = Some(Unwrap(payout'.quote_res).response.id)]]_vars

C19_Witness_QuoteIdReplaced ==
    /\ payout.pc = "main"
    /\ QuoteSucceeded
    /\ payout.input.request.quote_id = Some("q_old")
    /\ payout.router_data =
          [payout.input EXCEPT !.request.quote_id = Some("q_new_1")]

-----------------------------------------------------------------------------
(* Vocabulary of the normalizer properties *)
NormalizerOf(entry, res) ==
    IF entry = "build_error_response"
      THEN build_error_response(res)
      ELSE PCancel_get_error_response(res)
Normalized == norm.pc = "returned"
Parsed == norm.res.response.wellformed
NoSubErrors ==
    \/ norm.res.response.errors = None
    \/ norm.res.response.errors = Some(<<>>)
WithErrors(res, errs) == [res EXCEPT !.response.errors = errs]

(* C21: with the list of sub-errors absent or empty, the normalized message*)
(* is the top-level message if there is one and the placeholder (the empty *)
(* string) otherwise, the normalized code is the rendering of the top-level*)
(* status if there is one and the placeholder ("0") otherwise; an absent   *)
(* and an empty list give the same result.                                 *)
C21_FallbackToTopLevel ==
    (Normalized /\ Parsed /\ NoSubErrors)
        => /\ norm.out.tag = "Ok"
           /\ norm.out.val.message =
                 (IF IsSome(norm.res.response.message)
                    THEN Unwrap(norm.res.response.message) ELSE "")
           /\ norm.out.val.code =
                 (IF IsSome(norm.res.response.status)
                    THEN ToString(Unwrap(norm.res.response.status)) ELSE "0")
           /\ norm.out = NormalizerOf(norm.entry, WithErrors(norm.res, None))
           /\ norm.out = NormalizerOf(norm.entry, WithErrors(norm.res, Some(<<>>)))

C21_Witness_EmptyListTopLevel ==
    /\ Normalized
    /\ norm.entry = "build_error_response"
    /\ norm.res.response = ErrorBody(Some(<<>>), Some(7), Some("top"))
    /\ norm.out.tag = "Ok"
    /\ norm.out.val.code = "7"
    /\ norm.out.val.message = "top"

(* C22: every normalized error carries the HTTP status code of the         *)
(* transport response, whether the list of sub-errors is non-empty, empty  *)
(* or absent, and whatever status the body states.                         *)
C22_StatusCodePreserved ==
    (Normalized /\ norm.out.tag = "Ok")
        => norm.out.val.status_code = norm.res.status_code

C22_Witness_BodyStatusDiffers ==
    /\ Normalized
    /\ norm.entry = "PCancel::get_error_response"
    /\ norm.res.status_code = 422
    /\ norm.res.response = ErrorBody(None, Some(7), None)
    /\ norm.out.tag = "Ok"
    /\ norm.out.val.status_code = 422

(* C23: a body that does not parse into the error schema makes the         *)
(* normalizer return the fatal ResponseDeserializationFailed; no normalized*)
(* error is produced from defaults.                                        *)
C23_MalformedBodyIsFatal ==
    (Normalized /\ ~Parsed)
        => norm.out = Err_("ResponseDeserializationFailed")

C23_Witness_MalformedBody ==
    /\ Normalized
    /\ norm.res.response = MalformedBody
    /\ norm.entry = "PCancel::get_error_response"
    /\ norm.out.tag = "Err"

(* C24: an error reported by the processor in a well-formed body is a      *)
(* completed outcome: the operation returns Ok with a context whose outcome*)
(* is the normalized error carrying the processor's message.  The operation*)
(* itself returns an error only for a response that does not parse or a    *)
(* request that could not be constructed.                                  *)
BusinessError(res) == res.status_code # 200 /\ res.response.wellformed
ConstructionErrors == {"FailedToObtainAuthType", "RequestEncodingFailed"}

C24_BusinessErrorIsAnOutcome ==
    (payout.pc # "none")
        => /\ (IsSome(payout.main_res) /\ BusinessError(Unwrap(payout.main_res)))
                => /\ payout.result.tag = "Ok"
                   /\ payout.result.val.response =
                         Err_(build_error_response(Unwrap(payout.main_res)).val)
                   /\ payout.result.val.response.val.message
                         \in {"m1", "top"}
           /\ payout.result.tag = "Err"
                => \/ payout.result.val \in ConstructionErrors
                   \/ /\ payout.result.val = "ResponseDeserializationFailed"
                      /\ \/ IsSome(payout.main_res)
                            /\ ~Unwrap(payout.main_res).response.wellformed
                         \/ IsSome(payout.quote_res)
                            /\ ~Unwrap(payout.quote_res).response.wellformed

C24_Witness_BusinessError ==
    /\ payout.pc = "done"
    /\ payout.main_res =
          Some([status_code |-> 422,
                response |-> ErrorBody(Some(<<SubError("c1", "m1")>>),
                                       Some(7), Some("top"))])
    /\ payout.result.tag = "Ok"
    /\ payout.result.val.response = Err_(NormalizedError(422, "c1", "m1"))

-----------------------------------------------------------------------------
(* C25: a token read from the cache is one an earlier call generated and   *)
(* stored under the same key; while it has not expired the call returns it *)
(* and makes no refresh call, and once it has expired (or the store no     *)
(* longer holds it) the call goes through the AccessTokenAuth flow.        *)
StoredBy(p, k, o) ==
    \E i \in 1..Len(trace[p]) :
        /\ trace[p][i].op = "set_access_token"
        /\ trace[p][i].ok
        /\ trace[p][i].key = k
        /\ trace[p][i].arg = o

C25_ReuseUntilExpiry ==
    [][\A q \in Procs :
          /\ (pc[q] = "read_cache" /\ pc'[q] = "decide"
                                   /\ IsSome(old_access_token'[q]))
                => \E p \in Procs \ {q} :
                      StoredBy(p, KeyOf(q), old_access_token'[q])
          /\ (pc[q] = "decide" /\ pc'[q] # "decide")
                => IF Fresh(old_access_token[q], now)
                     THEN /\ pc'[q] = "returned"
                          /\ result'[q].val.access_token_result =
                                Ok_(old_access_token[q])
                          /\ trace'[q] = trace[q]
                          /\ minted' = minted
                     ELSE pc'[q] = "refresh"
          /\ (pc[q] = "refresh" /\ pc'[q] # "refresh")
                => /\ Len(trace'[q]) > Len(trace[q])
                   /\ trace'[q][Len(trace[q]) + 1].op =
                         "execute_connector_processing_step"
                   /\ trace'[q][Len(trace[q]) + 1].arg = "Trigger"]_vars

C25_Witness_ExpiredThenRenewed ==
    \E p, q \in Procs :
        /\ p # q
        /\ IsSome(old_access_token[q])
        /\ StoredBy(p, KeyOf(q), old_access_token[q])
        /\ required[q] = Some(TRUE)
        /\ pc[q] = "persist"
        /\ new_token[q] # old_access_token[q]

(* C26: the access-token-creation metric counts the refreshes that gave a  *)
(* new token: it is not incremented for a refresh whose outcome is an      *)
(* error.                                                                  *)
C26_MetricCountsNewTokens ==
    metrics = minted

-----------------------------------------------------------------------------
(* Vocabulary of the cycle properties *)
UsableCredential(rd) == rd.connector_auth_type.tag = "BodyKey"
HasTransferId(rd) == IsSome(rd.request.connector_payout_id)

\* the error of the first construction step that fails, if one does:
\* URL, then headers, then body
FirstFailure(rd, body) ==
    IF rd.flow = "PCancel"
      THEN IF ~HasTransferId(rd) THEN Some("MissingRequiredField transfer_id")
           ELSE IF ~UsableCredential(rd) THEN Some("FailedToObtainAuthType")
           ELSE None
    ELSE IF rd.flow = "PFulfill"
      THEN IF ~UsableCredential(rd) THEN Some("FailedToObtainAuthType")
           ELSE IF ~HasTransferId(rd) THEN Some("MissingRequiredField transfer_id")
           ELSE IF body.tag = "Err" THEN Some(body.val)
           ELSE None
    ELSE IF ~UsableCredential(rd) THEN Some("FailedToObtainAuthType")
         ELSE IF body.tag = "Err" THEN Some(body.val)
         ELSE None

Built == payout.pc \in {"main_sent", "done", "aborted"}
Triggered == payout.call_connector_action = "Trigger"

(* C27: when the URL, the headers or the body of a Wise payout request     *)
(* cannot be resolved, build_request returns the error of the first step   *)
(* that fails and no request: nothing is sent.  When all resolve, the      *)
(* request is built and sent once.                                         *)
C27_ConstructionFailureSendsNothing ==
    (Built /\ Triggered)
        => IF IsSome(FirstFailure(payout.input, payout.body))
             THEN /\ payout.pc = "aborted"
                  /\ payout.result =
                        Err_(Unwrap(FirstFailure(payout.input, payout.body)))
                  /\ payout.request = None
                  /\ payout.calls = <<>>
                  /\ payout.main_res = None
             ELSE /\ IsSome(payout.request)
                  /\ Len(payout.calls) = 1

C27_Witness_MissingTransferId ==
    /\ payout.pc = "aborted"
    /\ payout.input.flow = "PCancel"
    /\ ~HasTransferId(payout.input)
    /\ ~UsableCredential(payout.input)
    /\ payout.result = Err_("MissingRequiredField transfer_id")
    /\ payout.calls = <<>>

(* C28: a Trigger cycle that received its response has invoked exactly one*)
(* parser: handle_response when the transport reported success,            *)
(* get_error_response when it reported a failure; before the response none*)
(* has been invoked.                                                       *)
C28_ExactlyOneParser ==
    (Built /\ Triggered)
        => IF IsSome(payout.main_res)
             THEN /\ Len(payout.parsers) = 1
                  /\ payout.parsers[1] =
                        (IF Unwrap(payout.main_res).status_code = 200
                           THEN "handle_response" ELSE "get_error_response")
                  /\ payout.result =
                        (IF Unwrap(payout.main_res).status_code = 200
                           THEN handle_response(payout.input, Unwrap(payout.main_res))
                           ELSE LET e == get_error_response(payout.input.flow,
                                                            Unwrap(payout.main_res))
                                IN  IF e.tag = "Err" THEN Err_(e.val)
                                    ELSE Ok_([payout.input EXCEPT
                                                !.response = Err_(e.val)]))
             ELSE payout.parsers = <<>>

C28_Witness_ErrorParserOnly ==
    /\ payout.pc = "done"
    /\ payout.input.flow = "PoQuote"
    /\ IsSome(payout.main_res)
    /\ Unwrap(payout.main_res).status_code = 422
    /\ payout.parsers = <<"get_error_response">>

-----------------------------------------------------------------------------
(* C29: each of the three incoming-webhook operations of the Wise adapter  *)
(* returns the WebhooksNotImplemented error whatever the request holds;    *)
(* none returns a parsed value.                                            *)
C29_WebhooksNotImplemented ==
    (norm.pc = "returned" /\ norm.entry \in WebhookOperations)
        => norm.out = Err_("WebhooksNotImplemented")

C29_Witness_EventTypeRequested ==
    /\ norm.pc = "returned"
    /\ norm.entry = "get_webhook_event_type"
    /\ norm.res.method = "Post"
    /\ norm.res.body = "{\"event_type\":\"balances#credit\"}"
    /\ norm.out.tag = "Err"

-----------------------------------------------------------------------------
(* C30: the cache changes only in the step in which a call that has just   *)
(* obtained a new token from its refresh stores it, and the value stored   *)
(* is that token; the steps of the unsupported path, of the fresh path and *)
(* of a refresh that ends in an error (normalized or fatal) leave the      *)
(* cache as it was and write nothing.                                      *)
NoWriteBy(t) == \A i \in 1..Len(t) : t[i].op # "set_access_token"

C30_CacheWrittenOnlyAfterRefresh ==
    [][/\ (cache' # cache)
            => \E p \in Procs :
                  /\ pc[p] = "persist" /\ pc'[p] = "returned"
                  /\ IsSome(new_token[p])
                  /\ Len(trace[p]) >= 2
                  /\ trace[p][Len(trace[p]) - 1].op =
                        "execute_connector_processing_step"
                  /\ trace[p][Len(trace[p]) - 1].ok
                  /\ cache' = [cache EXCEPT ![KeyOf(p)] =
                        Some([access_token |-> Unwrap(new_token[p]),
                              set_at |-> now])]
                  /\ result'[p].val.access_token_result = Ok_(new_token[p])
       /\ \A p \in Procs :
             (pc[p] \in {"check_support", "read_cache", "decide", "refresh"}
                 /\ pc'[p] # pc[p])
                => /\ cache' = cache
                   /\ NoWriteBy(trace'[p])]_vars

C30_Witness_OneWriteOneError ==
    \E p, q \in Procs :
        /\ p # q
        /\ KeyOf(p) = KeyOf(q)
        /\ pc[p] = "returned" /\ pc[q] = "returned"
        /\ WroteOk(p)
        /\ cache[KeyOf(p)] # None
        /\ Unwrap(cache[KeyOf(p)]).access_token = Unwrap(new_token[p])
        /\ Refreshed(q)
        /\ Outcome(q).tag = "Err"
        /\ NoWriteBy(trace[q])

-----------------------------------------------------------------------------
(* C31: when the AccessTokenAuth cycle itself fails (the orchestrator      *)
(* returns an error, not a context with an error outcome), add_access_token*)
(* returns InternalServerError and no AddAccessTokenResult; the metric is  *)
(* not incremented and the cache is not written, in that step or later by  *)
(* that call.                                                              *)
RefreshFailedFatally(p) ==
    \E i \in 1..Len(trace[p]) :
        /\ trace[p][i].op = "execute_connector_processing_step"
        /\ ~trace[p][i].ok
NoMetricBy(t) == \A i \in 1..Len(t) : t[i].op # "ACCESS_TOKEN_CREATION"

C31_FatalRefreshIsInternalFailure ==
    [][\A p \in Procs :
          /\ (pc[p] = "refresh" /\ RefreshFailedFatally(p)')
                => /\ pc'[p] = "failed"
                   /\ result'[p] = Err_("InternalServerError")
                   /\ metrics' = metrics
                   /\ cache' = cache
                   /\ NoMetricBy(trace'[p])
                   /\ NoWriteBy(trace'[p])
          /\ (pc[p] = "failed") => (pc'[p] = "failed" /\ trace'[p] = trace[p]
                                    /\ result'[p] = result[p])]_vars

C31_Witness_FatalRefresh ==
    \E p \in Procs :
        /\ pc[p] = "failed"
        /\ RefreshFailedFatally(p)
        /\ Ops(p) = <<"get_access_token", "execute_connector_processing_step">>
        /\ result[p] = Err_("InternalServerError")
        /\ metrics = 0

(* C32: a result of add_access_token with supports = true and an Ok token  *)
(* outcome holds a present token, on the fresh path and on the refresh     *)
(* path; the merge that follows under Trigger leaves a present token in    *)
(* the context's access_token slot.                                        *)
C32_OkOutcomeHoldsToken ==
    \A p \in Procs :
        (/\ pc[p] \in {"returned", "merged"}
         /\ result[p].tag = "Ok"
         /\ result[p].val.connector_supports_access_token
         /\ Outcome(p).tag = "Ok")
            => /\ IsSome(Outcome(p).val)
               /\ (pc[p] = "merged" /\ call[p].call_connector_action = "Trigger")
                     => /\ IsSome(router_data[p].access_token)
                        /\ router_data[p].access_token = Outcome(p).val

C32_Witness_FreshTokenMerged ==
    \E p \in Procs :
        /\ pc[p] = "merged"
        /\ call[p].call_connector_action = "Trigger"
        /\ required[p] = Some(FALSE)
        /\ IsSome(old_access_token[p])
        /\ router_data[p].access_token = old_access_token[p]

(* C33: in the race of two refreshes on one key each call returns the      *)
(* token its own refresh gave, never the other call's; the two returned    *)
(* tokens differ, so a caller can hold a token that is not the one the     *)
(* cache is left with.                                                     *)
C33_EachCallReturnsItsOwnToken ==
    \A p, q \in Procs :
        (/\ p # q
         /\ KeyOf(p) = KeyOf(q)
         /\ Over(p) /\ Over(q)
         /\ IsSome(new_token[p]) /\ IsSome(new_token[q]))
            => /\ Outcome(p) = Ok_(new_token[p])
               /\ Outcome(q) = Ok_(new_token[q])
               /\ Outcome(p) # Outcome(q)
               /\ ~StoredBy(q, KeyOf(p), Outcome(p).val)

C33_Witness_HolderDiffersFromCache ==
    \E p, q \in Procs :
        /\ p # q
        /\ Over(p) /\ Over(q)
        /\ WroteOk(p) /\ WroteOk(q)
        /\ Outcome(p) = Ok_(new_token[p])
        /\ Unwrap(cache[RaceKey]).access_token = Unwrap(new_token[q])
        /\ Unwrap(cache[RaceKey]).access_token # Unwrap(Outcome(p).val)

-----------------------------------------------------------------------------
(* C34: when the quote sub-flow fails fatally (its request cannot be built *)
(* or its response does not parse), execute_pretasks returns that error and*)
(* the parent context is as it was before the pretask: request.quote_id    *)
(* keeps its value.                                                        *)
QuoteFailedFatally == payout.quote_router_resp.tag = "Err"

C34_FatalQuoteLeavesParentUnchanged ==
    (payout.pc # "none" /\ QuoteFailedFatally)
        => /\ payout.pretask_result = Err_(payout.quote_router_resp.val)
           /\ payout.result = Err_(payout.quote_router_resp.val)
           /\ payout.pc = "aborted"
           /\ payout.router_data = payout.input
           /\ payout.router_data.request.quote_id = payout.input.request.quote_id

C34_Witness_QuoteUnparsable ==
    /\ payout.pc = "aborted"
    /\ payout.quote_router_resp = Err_("ResponseDeserializationFailed")
    /\ payout.input.request.quote_id = Some("q_old")
    /\ payout.router_data.request.quote_id = Some("q_old")
    /\ Len(payout.calls) = 1

(* C35: execute_pretasks of a payout-create whose request already carries a*)
(* quote identifier still issues the quote call - once, when the quote     *)
(* request can be built - and a successful quote replaces the identifier   *)
(* the request carried with the new one.                                   *)
PretasksEntered == payout.pc \notin {"none", "start", "pretasks"}

C35_QuoteIssuedAlsoWithPriorId ==
    (/\ PretasksEntered
     /\ payout.call_connector_action = "Trigger"
     /\ IsSome(payout.input.request.quote_id))
        => /\ IF UsableCredential(payout.input)
                    /\ payout.quote_router_resp # Err_("RequestEncodingFailed")
                THEN /\ CallIndexes("PoQuote") = {1}
                     /\ payout.calls[1].call_connector_action = "Trigger"
                ELSE /\ payout.calls = <<>>
                     /\ payout.pc = "aborted"
           /\ QuoteSucceeded
                => /\ payout.router_data.request.quote_id = Some(QuotedId)
                   /\ payout.router_data.request.quote_id
                         # payout.input.request.quote_id

C35_Witness_PriorIdOverwritten ==
    /\ payout.pc = "main_sent"
    /\ payout.input.request.quote_id = Some("q_old")
    /\ CallIndexes("PoQuote") = {1}
    /\ QuoteSucceeded
    /\ payout.router_data.request.quote_id = Some("q_new_2")

====
